---- MODULE Spec2Model ----
(***************************************************************************)
(* ScholarX retrieval core: chunker, keyword scorer, quality scorer,       *)
(* hybrid combiner, re-ranker and deduplicator, modelled from the Python   *)
(* sources.  Each component is a pure function of its inputs; every        *)
(* specification below draws the inputs in its initial state and applies   *)
(* the operations of one component.                                        *)
(***************************************************************************)
EXTENDS Integers, Sequences, FiniteSets, TLC

VARIABLES
    run,                 \* the component this behaviour exercises
    \* rag/reranker.py
    results,             \* the list handed to / returned by the last re-ranker call
    prev_results,        \* the argument of the last re-ranker call
    paper_metadata_map,  \* paper_id -> metadata record
    diversity_weight,
    max_per_paper,
    last_op,             \* "none" | "rerank_results" | "ensure_diversity"
    raised,              \* exception raised by the last call, "" when it returned
    ops_done,
    \* rag/hybrid_search.py
    query,               \* the search query
    collection_hits,     \* the stored chunks, nearest to the query embedding first
    top_k,
    keyword_weight,
    semantic_weight,     \* semantic_weight of the last hybrid_search call
    semantic_results,    \* the candidates query_vectors returned to it
    hybrid_results,      \* its return value
    prev_semantic_weight,\* the same two for the call before it
    prev_hybrid_results,
    searches,            \* hybrid_search calls made
    \* rag/quality_scorer.py
    paper_metadata,      \* argument of calculate_quality_score
    quality_result,      \* its outcome: <<"none">>, <<"ok", score>> or <<"raise", exc>>
    \* api/deduplication.py
    all_data,            \* the chunk metadata collection.get returns, in its order
    threshold,
    duplicates,          \* the groups returned by the last find_duplicate_papers call
    prev_duplicates,     \* those returned by the call before it
    dedup_last,          \* "none" | "find_duplicate_papers" | "reorder"
    dedup_calls,
    arxiv_versions,      \* <<"none">> or <<"ok", what normalize_arxiv_versions returned>>
    \* processing/chunker.py, processing/advanced_chunker.py, config/settings.py
    settings,            \* [chunk_size, chunk_overlap]
    text,
    chunk_size,          \* chunk_text's arguments, 0 for None ...
    chunk_overlap,       \* ... and its locals
    cleaned_text,
    start_index,
    chunk_index,
    chunks,
    pc,                  \* chunk_text is at: "call" | "loop" | "done"
    max_chunk_size,      \* chunk_by_paragraphs's argument, 0 for None
    para_chunks,         \* its outcome: <<"none" | "ok" | "diverges", chunks>>
    \* rag/query_expander.py
    user_query,          \* the query the user typed
    normalized,          \* normalize_query(user_query), normalize_query of that, ...
    expand_argument,     \* the query of the last expand_query_with_llm call
    llm_enabled,         \* settings.llm_provider == "openai" and settings.openai_api_key
    llm_response,        \* what the chat completion call did in it
    expanded_queries,    \* its outcome: <<"none">>, <<"ok", list>> or <<"raise", exc>>
    \* rag/pipeline.py
    use_hybrid_search,   \* run_rag_pipeline's arguments; query, top_k and the index
    use_reranking,       \* are those of hybrid_search above
    pipeline_outcome,    \* <<"none">>, <<"raise", message>> or
                         \* <<"generate_answer", context_chunks>>
    index_metadata,      \* paper_id -> the metadata upsert_chunks stored with its chunks
    \* api/deduplication.py: merge_paper_metadata
    collection_metadata, \* paper_id -> <<"none">> (no chunk stored) or <<"chunk", metadata>>
    paper_ids,           \* the argument of the last merge_paper_metadata call
    merged,              \* its outcome: <<"none">>, <<"ok", merged>> or <<"raise", type>>
    prev_merged,         \* the outcome of the call before
    merges               \* the calls made

rerankVars  == <<results, prev_results, paper_metadata_map, diversity_weight,
                 max_per_paper, last_op, raised, ops_done>>
qualityVars == <<paper_metadata, quality_result>>
hybridVars  == <<query, collection_hits, top_k, keyword_weight, semantic_weight,
                 semantic_results, hybrid_results, prev_semantic_weight, prev_hybrid_results, searches>>
dedupVars   == <<all_data, threshold, duplicates, prev_duplicates, dedup_last, dedup_calls,
                 arxiv_versions>>
chunkerVars == <<settings, text, chunk_size, chunk_overlap, cleaned_text, start_index,
                 chunk_index, chunks, pc, max_chunk_size, para_chunks>>
expanderVars == <<user_query, normalized, expand_argument, llm_enabled, llm_response,
                  expanded_queries>>
pipelineVars == <<use_hybrid_search, use_reranking, pipeline_outcome, index_metadata>>
mergeVars == <<collection_metadata, paper_ids, merged, prev_merged, merges>>
vars == <<run, rerankVars, qualityVars, hybridVars, dedupVars, chunkerVars,
         expanderVars,
         pipelineVars,
         mergeVars>>

-----------------------------------------------------------------------------
(* Bounds of the model *)

Prec == 5            \* bits of significand kept by the model's binary floats
MaxResults == 3      \* longest candidate list handed to the re-ranker
MaxPerPaper == 2     \* largest max_per_paper tried
MaxOps == 2          \* re-ranker calls chained in one behaviour
MaxHits == 3         \* chunks in the vector index
MaxTopK == 2         \* largest top_k tried
MaxSearches == 2     \* hybrid_search calls in one behaviour
MaxPapers == 3       \* papers in the collection
MaxDedupCalls == 2   \* find_duplicate_papers calls in one behaviour
MaxTextLen == 7      \* longest text handed to chunk_text
MaxChunkSize == 5    \* largest chunk_size tried
MaxChunks == 8       \* chunks after which a chunk_text run is left alone
MaxParagraphsLen == 7    \* longest text handed to chunk_by_paragraphs
MaxQueryLen == 3     \* longest query drawn from the query alphabet
MaxNormalizations == 2   \* normalize_query calls chained in one behaviour
MaxMembers == 2      \* papers handed to merge_paper_metadata
MaxMerges == 2       \* merge_paper_metadata calls in one behaviour

-----------------------------------------------------------------------------
(* Python floats.  A float is a pair <<n, d>>: the dyadic rational n/d in  *)
(* lowest terms (d a power of two).  Every arithmetic operation rounds its *)
(* exact result to the nearest float with a Prec-bit significand, ties to  *)
(* even, as IEEE-754 does with 53 bits.                                    *)

MaxMantissa == 2 ^ Prec          \* significands lie in [MinMantissa, MaxMantissa)
MinMantissa == 2 ^ (Prec - 1)

RECURSIVE FReduce(_, _)
FReduce(n, d) ==
    IF n = 0 THEN <<0, 1>>
    ELSE IF d > 1 /\ n % 2 = 0 THEN FReduce(n \div 2, d \div 2)
    ELSE <<n, d>>

\* n/d scaled into [2^(Prec-1), 2^Prec), rounded to an integer, scaled back:
\* the result is mantissa * num / den
RECURSIVE FRoundScaled(_, _, _, _)
FRoundScaled(n, d, num, den) ==
    IF n \div d >= MaxMantissa THEN FRoundScaled(n, 2 * d, 2 * num, den)
    ELSE IF n \div d < MinMantissa
         THEN FRoundScaled(IF d % 2 = 0 THEN n ELSE 2 * n,
                           IF d % 2 = 0 THEN d \div 2 ELSE d, num, 2 * den)
    ELSE
        LET q == n \div d
            r == n % d
            mantissa == IF 2 * r > d \/ (2 * r = d /\ q % 2 = 1) THEN q + 1 ELSE q
        IN  FReduce(mantissa * num, den)

\* the float nearest to the rational n/d (d > 0)
FRound(n, d) ==
    IF n = 0 THEN <<0, 1>>
    ELSE IF n < 0 THEN LET r == FRoundScaled(-n, d, 1, 1) IN <<-r[1], r[2]>>
    ELSE FRoundScaled(n, d, 1, 1)

FZero == <<0, 1>>
FOne  == <<1, 1>>
\* x + y: denominators are powers of two, the larger one is the common
\* denominator
FAdd(x, y) ==
    FRound(IF x[2] >= y[2] THEN x[1] + y[1] * (x[2] \div y[2])
                           ELSE x[1] * (y[2] \div x[2]) + y[1],
           IF x[2] >= y[2] THEN x[2] ELSE y[2])
FSub(x, y) == FAdd(x, <<-y[1], y[2]>>)
FMul(x, y) == FRound(x[1] * y[1], x[2] * y[2])
FDiv(x, y) == IF y[1] > 0 THEN FRound(x[1] * y[2], x[2] * y[1])
                          ELSE FRound(-(x[1] * y[2]), x[2] * (-y[1]))
FLe(x, y) == x[1] * y[2] <= y[1] * x[2]
FLt(x, y) == x[1] * y[2] < y[1] * x[2]
FMin(x, y) == IF FLt(y, x) THEN y ELSE x    \* min(x, y): first minimal argument
FMax(x, y) == IF FLt(x, y) THEN y ELSE x    \* max(x, y): first maximal argument
InUnit(x) == FLe(FZero, x) /\ FLe(x, FOne)

\* float literals of the sources
F01  == FRound(1, 10)     \* 0.1
F015 == FRound(15, 100)   \* 0.15
F02  == FRound(2, 10)     \* 0.2
F03  == FRound(3, 10)     \* 0.3
F04  == FRound(4, 10)     \* 0.4
F005 == FRound(5, 100)    \* 0.05
F05  == FRound(1, 2)      \* 0.5
F06  == FRound(6, 10)     \* 0.6
F07  == FRound(7, 10)     \* 0.7
F08  == FRound(8, 10)     \* 0.8
F09  == FRound(9, 10)     \* 0.9

-----------------------------------------------------------------------------
(* Python values that may be missing.  A dictionary entry is a pair        *)
(* <<tag, v>>: <<"absent", _>> when the key is not in the dictionary,      *)
(* <<"none", _>> when its value is None, <<"val", v>> otherwise.           *)

Absent == <<"absent", 0>>
None   == <<"none", 0>>
Val(v) == <<"val", v>>

\* dict.get(key, default)
Get(entry, default) == IF entry[1] = "absent" THEN default ELSE entry

-----------------------------------------------------------------------------
(* rag/quality_scorer.py *)

CurrentYear == 2026      \* datetime.utcnow().year

\* math.log10(x) for x a power of ten; math.log(x) / math.log(1000) is a third of it
RECURSIVE Log10(_)
Log10(x) == IF x < 10 THEN 0 ELSE 1 + Log10(x \div 10)

\* mutant of RecencyScore: the floor max(0.3, ...) dropped
RecencyScoreNoFloor(age) ==
    IF age <= 1 THEN FOne
    ELSE IF age <= 5 THEN F08
    ELSE IF age <= 10 THEN F06
    ELSE FSub(FOne, FRound(age, 50))

RecencyScore(age) ==
    IF age <= 1 THEN FOne
    ELSE IF age <= 5 THEN F08
    ELSE IF age <= 10 THEN F06
    ELSE FMax(F03, FSub(FOne, FRound(age, 50)))

\* if condition: score += increment
AddIf(condition, score, increment) ==
    IF condition THEN FAdd(score, increment) ELSE score

\* The outcome of calculate_quality_score(paper_metadata): <<"ok", score>>
\* or <<"raise", exception>>.  Strings are kept by what the code reads of
\* them: pdf_url and abstract by their length, title by its number of
\* whitespace-separated words, authors by len(authors).
calculate_quality_score(m) ==
    LET citation_count == Get(m.citation_count, Val(0))
        year     == Get(m.year, None)
        pdf_url  == Get(m.pdf_url, None)
        source   == Get(m.source, Val(""))
        abstract == Get(m.abstract, Val(0))
        authors  == Get(m.authors, Val(0))
        title    == Get(m.title, Val(0))
        s0 == FZero
        s1 == AddIf(citation_count[2] > 0, s0,
                    FMul(FMin(FOne, FRound(Log10(1 + citation_count[2]), 3)), F03))
        s2 == AddIf(year[1] = "val" /\ year[2] # 0, s1,
                    FMul(RecencyScore(CurrentYear - year[2]), F02))
        s3 == AddIf(pdf_url[1] = "val" /\ pdf_url[2] > 0, s2, F015)
        s4 == AddIf(source[1] = "val" /\ source[2] \in {"arxiv", "semantic_scholar"},
                    s3, F01)
        s5 == AddIf(abstract[1] = "val" /\ abstract[2] > 200, s4, F01)
        s6 == AddIf(authors[2] >= 2, s5, F005)
        s7 == AddIf(5 <= title[2] /\ title[2] <= 20, s6, F005)
    IN  IF citation_count[1] = "none" THEN <<"raise", "TypeError">>       \* None > 0
        ELSE IF authors[1] = "none" THEN <<"raise", "TypeError">>         \* len(None)
        ELSE IF title[1] = "none" THEN <<"raise", "AttributeError">>      \* None.split()
        ELSE <<"ok", FMin(FOne, s7)>>

\* the empty dictionary {}
EmptyMetadata ==
    [citation_count |-> Absent, year |-> Absent, pdf_url |-> Absent,
     source |-> <<"absent", "">>, abstract |-> Absent, authors |-> Absent,
     title |-> Absent]

\* metadata records tried by the quality-scorer specification
MetadataRecords ==
    [citation_count : {Absent, None, Val(0), Val(9), Val(999), Val(999999)},
     year : {Absent, None} \cup
            {Val(CurrentYear - age) : age \in {-1, 1, 2, 5, 6, 10, 11, 36, 60}},
     pdf_url : {Absent, Val(0), Val(30)},
     source : {<<"absent", "">>, Val("arxiv"), Val("semantic_scholar"), Val("api")},
     abstract : {Absent, Val(200), Val(201)},
     authors : {Absent, None, Val(1), Val(2)},
     title : {Absent, None, Val(4), Val(5), Val(21)}]


-----------------------------------------------------------------------------
(* vectorstore/query.py: QueryResult.  metadata holds the score entries    *)
(* the search and re-ranking stages add to the result's metadata dict.     *)

NoScores ==
    [semantic_score |-> Absent, keyword_score |-> Absent, combined_score |-> Absent,
     base_score |-> Absent, quality_score |-> Absent, final_score |-> Absent]

QueryResult(chunk_id, paper_id, score, metadata) ==
    [chunk_id |-> chunk_id, paper_id |-> paper_id, score |-> score,
     metadata |-> metadata]

\* list.sort(key=lambda x: x.score, reverse=True): stable, descending
\* mutant of InsertByScoreDesc: an unstable sort, equal scores change places
RECURSIVE InsertByScoreDescUnstable(_, _)
InsertByScoreDescUnstable(sorted, x) ==
    IF sorted = <<>> THEN <<x>>
    ELSE IF FLe(Head(sorted).score, x.score) THEN <<x>> \o sorted
    ELSE <<Head(sorted)>> \o InsertByScoreDescUnstable(Tail(sorted), x)

RECURSIVE InsertByScoreDesc(_, _)
InsertByScoreDesc(sorted, x) ==
    IF sorted = <<>> THEN <<x>>
    ELSE IF FLt(Head(sorted).score, x.score) THEN <<x>> \o sorted
    ELSE <<Head(sorted)>> \o InsertByScoreDesc(Tail(sorted), x)

RECURSIVE SortFrom(_, _)
SortFrom(sorted, rest) ==
    IF rest = <<>> THEN sorted
    ELSE SortFrom(InsertByScoreDesc(sorted, Head(rest)), Tail(rest))

SortByScoreDesc(list) == SortFrom(<<>>, list)

-----------------------------------------------------------------------------
(* rag/reranker.py *)

PaperIds == {"p1", "p2"}

\* mutant of DiversityBonus: the bonus for every candidate
DiversityBonusForAll(paper_id, seen_papers) == F01

\* diversity_bonus: 0.1 if result.paper_id not in seen_papers, else 0.0
DiversityBonus(paper_id, seen_papers) ==
    IF paper_id \notin seen_papers THEN F01 ELSE FZero

\* the loop of rerank_results from position i on; the outcome is
\* <<"ok", reranked>> or <<"raise", exception>>
RECURSIVE RerankLoop(_, _, _, _, _, _)
RerankLoop(rs, i, map, dw, seen_papers, reranked) ==
    IF i > Len(rs) THEN <<"ok", reranked>>
    ELSE
        LET result == rs[i]
            base_score == result.score
            paper_meta == IF result.paper_id \in DOMAIN map
                          THEN map[result.paper_id] ELSE EmptyMetadata
        IN  CHOOSE out \in
                {IF quality[1] = "raise" THEN quality
                 ELSE
                     LET quality_score == quality[2]
                         diversity_bonus == DiversityBonus(result.paper_id, seen_papers)
                     IN  CHOOSE next \in
                             {RerankLoop(rs, i + 1, map, dw,
                                  seen_papers \cup {result.paper_id},
                                  Append(reranked,
                                      QueryResult(result.chunk_id, result.paper_id,
                                          final_score,
                                          [result.metadata EXCEPT
                                              !.base_score = Val(base_score),
                                              !.quality_score = Val(quality_score),
                                              !.final_score = Val(final_score)]))) :
                                 final_score \in
                                     {FAdd(FAdd(FMul(F06, base_score),
                                                FMul(F03, quality_score)),
                                           FMul(dw, diversity_bonus))}} : TRUE :
                    quality \in {calculate_quality_score(paper_meta)}} : TRUE

rerank_results(rs, map, dw) ==
    IF rs = <<>> THEN <<"ok", rs>>
    ELSE LET looped == RerankLoop(rs, 1, map, dw, {}, <<>>)
         IN  IF looped[1] = "raise" THEN looped
             ELSE <<"ok", SortByScoreDesc(looped[2])>>

\* mutant of CountOf: every paper counts as new
CountOfAlwaysZero(paper_counts, paper_id) == 0

\* dict.get(paper_id, 0) on the paper_counts dictionary
CountOf(paper_counts, paper_id) ==
    IF paper_id \in DOMAIN paper_counts THEN paper_counts[paper_id] ELSE 0

\* mutant of KeepsResult: off by one
KeepsResultOffByOne(count, k) == count <= k

\* if count < max_per_paper
KeepsResult(count, k) == count < k

RECURSIVE DiversityLoop(_, _, _, _, _)
DiversityLoop(rs, i, k, paper_counts, diversified) ==
    IF i > Len(rs) THEN diversified
    ELSE
        LET paper_id == rs[i].paper_id
            count == CountOf(paper_counts, paper_id)
        IN  IF KeepsResult(count, k)
            THEN DiversityLoop(rs, i + 1, k,
                     [p \in DOMAIN paper_counts \cup {paper_id} |->
                         IF p = paper_id THEN count + 1 ELSE paper_counts[p]],
                     Append(diversified, rs[i]))
            ELSE DiversityLoop(rs, i + 1, k, paper_counts, diversified)

ensure_diversity(rs, k) == DiversityLoop(rs, 1, k, <<>>, <<>>)


-----------------------------------------------------------------------------
(* Strings are sequences of one-character strings. *)

UpperCase == <<"A", "B", "C", "D", "E", "F", "G", "H", "I", "J", "K", "L", "M",
               "N", "O", "P", "Q", "R", "S", "T", "U", "V", "W", "X", "Y", "Z">>
LowerCase == <<"a", "b", "c", "d", "e", "f", "g", "h", "i", "j", "k", "l", "m",
               "n", "o", "p", "q", "r", "s", "t", "u", "v", "w", "x", "y", "z">>
Digits == {"0", "1", "2", "3", "4", "5", "6", "7", "8", "9"}
Range(f) == {f[i] : i \in DOMAIN f}

IsSpace(c) == c \in {" ", "\n", "\t", "\r"}                        \* \s
IsWordChar(c) == c \in Range(UpperCase) \cup Range(LowerCase) \cup Digits \cup {"_"}  \* \w

LowerChar(c) ==
    IF c \in Range(UpperCase)
    THEN LowerCase[CHOOSE i \in 1..26 : UpperCase[i] = c] ELSE c

\* str.lower()
Lower(s) == [i \in 1..Len(s) |-> LowerChar(s[i])]

\* re.sub(r'[^\w\s]', ' ', s)
PunctuationToSpace(s) ==
    [i \in 1..Len(s) |-> IF IsWordChar(s[i]) \/ IsSpace(s[i]) THEN s[i] ELSE " "]

\* str.split(): the maximal runs of non-whitespace characters, in order.
\* WordStarts are the positions where such a run begins, WordEnd(s, a) is
\* where the run beginning at a ends.
WordStarts(s) ==
    {a \in 1..Len(s) : ~IsSpace(s[a]) /\ (a = 1 \/ IsSpace(s[a - 1]))}
WordEnd(s, a) ==
    CHOOSE b \in a..Len(s) :
        /\ \A c \in a..b : ~IsSpace(s[c])
        /\ (b = Len(s) \/ IsSpace(s[b + 1]))
RECURSIVE SplitFrom(_, _)
SplitFrom(s, starts) ==
    IF starts = {} THEN <<>>
    ELSE LET a == CHOOSE x \in starts : \A y \in starts : x <= y
         IN  <<SubSeq(s, a, WordEnd(s, a))>> \o SplitFrom(s, starts \ {a})

Split(s) == SplitFrom(s, WordStarts(s))

-----------------------------------------------------------------------------
(* rag/hybrid_search.py: simple_keyword_match *)

\* set(word for word in normalized.split() if len(word) > 2)
WordSet(s) == {w \in Range(Split(PunctuationToSpace(Lower(s)))) : Len(w) > 2}

ClampToOne(score) == FMin(FOne, score)

simple_keyword_match(q, txt) ==
    IF q = <<>> \/ txt = <<>> THEN FZero
    ELSE
        LET query_words == WordSet(q)
            text_words  == WordSet(txt)
            intersection == query_words \cap text_words
            union == query_words \cup text_words
        IN  IF query_words = {} THEN FZero
            ELSE IF union = {} THEN FZero
            ELSE
                LET jaccard_score == FRound(Cardinality(intersection), Cardinality(union))
                    precision_score ==
                        FRound(Cardinality(intersection), Cardinality(query_words))
                    score == FAdd(FMul(F06, jaccard_score), FMul(F04, precision_score))
                IN  ClampToOne(score)

-----------------------------------------------------------------------------
(* vectorstore/query.py: query_vectors.  The vector index is external: a   *)
(* hit is a stored chunk with its cosine distance to the query embedding,  *)
(* and the index returns the n_results nearest hits, nearest first.        *)

Take(list, n) == SubSeq(list, 1, IF n < Len(list) THEN n ELSE Len(list))

DistanceToScore(distance) ==
    IF FLe(distance, FRound(2, 1)) THEN FSub(FOne, FDiv(distance, FRound(2, 1)))
    ELSE FZero

query_vectors(hits, n_results) ==
    LET found == Take(hits, n_results)
        query_results ==
            [i \in 1..Len(found) |->
                QueryResult(found[i].chunk_id, found[i].paper_id,
                            DistanceToScore(found[i].distance), NoScores)
                    @@ [text |-> found[i].text]]
    IN  SortByScoreDesc(query_results)

-----------------------------------------------------------------------------
(* rag/hybrid_search.py: hybrid_search *)

\* mutant of NormalizeWeights: the fallback is keyword-only
NormalizeWeightsKeywordOnly(sw, kw) ==
    LET total_weight == FAdd(sw, kw)
    IN  IF total_weight = FZero THEN <<FZero, FOne>>
        ELSE <<FDiv(sw, total_weight), FDiv(kw, total_weight)>>


\* the weights after normalisation, <<semantic_weight, keyword_weight>>
NormalizeWeights(sw, kw) ==
    LET total_weight == FAdd(sw, kw)
    IN  IF total_weight = FZero THEN <<FOne, FZero>>
        ELSE <<FDiv(sw, total_weight), FDiv(kw, total_weight)>>

\* mutant of CombinedScore: the keyword term subtracted
CombinedScoreKeywordSubtracted(sw, kw, semantic_score, keyword_score) ==
    FSub(FMul(sw, semantic_score), FMul(kw, keyword_score))

\* mutant of CombinedScore: the two weights exchanged
CombinedScoreSwapped(sw, kw, semantic_score, keyword_score) ==
    FAdd(FMul(kw, semantic_score), FMul(sw, keyword_score))

CombinedScore(sw, kw, semantic_score, keyword_score) ==
    FAdd(FMul(sw, semantic_score), FMul(kw, keyword_score))

\* the queries and chunk texts tried
\* "neural networks", "AI"
Queries ==
    {<<"n", "e", "u", "r", "a", "l", " ", "n", "e", "t", "w", "o", "r", "k", "s">>,
     <<"A", "I">>}
\* "deep neural networks for vision", "cooking recipes", "Neural networks."
Texts ==
    {<<"d", "e", "e", "p", " ", "n", "e", "u", "r", "a", "l", " ", "n", "e",
       "t", "w", "o", "r", "k", "s", " ", "f", "o", "r", " ", "v", "i", "s",
       "i", "o", "n">>,
     <<"c", "o", "o", "k", "i", "n", "g", " ", "r", "e", "c", "i", "p", "e", "s">>,
     <<"N", "e", "u", "r", "a", "l", " ", "n", "e", "t", "w", "o", "r", "k", "s", ".">>}
\* simple_keyword_match(query, result.text) for the queries and texts of the
\* model, evaluated once
KeywordScores == [q \in Queries, txt \in Texts |-> simple_keyword_match(q, txt)]

\* steps 2-4 of hybrid_search, on the candidates of step 1
HybridRank(candidates, q, k, sw, kw) ==
    LET weights == NormalizeWeights(sw, kw)
        hybrid ==
            [i \in 1..Len(candidates) |->
                LET result == candidates[i]
                    keyword_score == KeywordScores[q, result.text]
                    combined_score ==
                        CombinedScore(weights[1], weights[2], result.score, keyword_score)
                IN  [result EXCEPT
                        !.score = combined_score,
                        !.metadata = [@ EXCEPT !.semantic_score = Val(result.score),
                                               !.keyword_score = Val(keyword_score),
                                               !.combined_score = Val(combined_score)]]]
    IN  Take(SortByScoreDesc(hybrid), k)

-----------------------------------------------------------------------------
(* api/deduplication.py: similarity_score (difflib.SequenceMatcher)        *)

\* the length of the longest common run of a from position i and b from
\* position j (positions are 1-based, ahi and bhi are exclusive ends)
CommonRun(a, b, i, j, ahi, bhi) ==
    CHOOSE k \in 0..(ahi - i) :
        /\ \A t \in 0..(k - 1) : j + t < bhi /\ a[i + t] = b[j + t]
        /\ ~(i + k < ahi /\ j + k < bhi /\ a[i + k] = b[j + k])

\* SequenceMatcher.find_longest_match without junk: <<i, j, k>>, the longest
\* block a[i..i+k) = b[j..j+k) inside a[alo..ahi) and b[blo..bhi); of the
\* longest blocks the one that starts earliest in a, then earliest in b
find_longest_match(a, b, alo, ahi, blo, bhi) ==
    LET blocks == {<<i, j, CommonRun(a, b, i, j, ahi, bhi)>> :
                       i \in alo..(ahi - 1), j \in blo..(bhi - 1)}
        best == {m \in blocks : \A o \in blocks : o[3] <= m[3]}
    IN  IF blocks = {} THEN <<alo, blo, 0>>
        ELSE CHOOSE m \in best :
                 \A o \in best : m[1] < o[1] \/ (m[1] = o[1] /\ m[2] <= o[2])

\* the total size of SequenceMatcher.get_matching_blocks(): the longest
\* match, then recursively the pieces to its left and to its right
RECURSIVE MatchingSize(_, _, _, _, _, _)
MatchingSize(a, b, alo, ahi, blo, bhi) ==
    IF alo >= ahi \/ blo >= bhi THEN 0
    ELSE \* the longest match is computed once and bound to m
         CHOOSE size \in
             {IF m[3] = 0 THEN 0
              ELSE m[3] + MatchingSize(a, b, alo, m[1], blo, m[2])
                        + MatchingSize(a, b, m[1] + m[3], ahi, m[2] + m[3], bhi) :
                  m \in {find_longest_match(a, b, alo, ahi, blo, bhi)}} : TRUE

\* SequenceMatcher(None, a, b).ratio(): 2.0 * matches / length, 1.0 when both
\* strings are empty.  The ratio is kept as the exact fraction
\* <<2 * matches, length>>: the quotients and the thresholds they are compared
\* with are ratios of small integers, whose order rounding to a double keeps.
Ratio(a, b) ==
    LET length == Len(a) + Len(b)
    IN  IF length = 0 THEN <<1, 1>>
        ELSE <<2 * MatchingSize(a, b, 1, Len(a) + 1, 1, Len(b) + 1), length>>

similarity_score(str1, str2) == Ratio(Lower(str1), Lower(str2))

-----------------------------------------------------------------------------
(* api/deduplication.py: find_duplicate_papers *)

\* arxiv_id.split('v')[0]: the part before the first 'v'
BaseId(arxiv_id) ==
    LET vs == {i \in 1..Len(arxiv_id) : arxiv_id[i] = "v"}
    IN  IF vs = {} THEN arxiv_id
        ELSE SubSeq(arxiv_id, 1, (CHOOSE i \in vs : \A o \in vs : i <= o) - 1)

\* the (title, authors) pairs of the model
TitleAuthors ==
    {<<<<>>, <<>>>>,
     <<<<"A", "b", "c", "d", "e", "f", "g">>, <<"a", "b", "c", "d">>>>,
     <<<<"b", "c", "d", "e", "f", "g", "h">>, <<"b", "c", "d", "e">>>>,
     <<<<"v", "w", "x", "y", "z">>, <<"a", "b", "c", "d">>>>,
     <<<<"A", "b", "c", "d", "e", "f", "g">>, <<"w", "x", "y", "z">>>>}

\* similarity_score for the strings of the model, evaluated once
ModelStrings == {ta[1] : ta \in TitleAuthors} \cup {ta[2] : ta \in TitleAuthors}
SimilarityScores == [s \in ModelStrings, t \in ModelStrings |-> similarity_score(s, t)]

\* mutant of AuthorThreshold: any author similarity passes
AuthorThresholdZero == <<0, 1>>

AuthorThreshold == <<7, 10>>      \* 0.7
DefaultThreshold == <<85, 100>>   \* threshold: float = 0.85

\* the papers dictionary as the list of its items, in insertion order: one
\* entry per paper_id, built from the first chunk of that paper
RECURSIVE PaperItems(_, _, _)
PaperItems(data, i, papers) ==
    IF i > Len(data) THEN papers
    ELSE IF \E k \in 1..Len(papers) : papers[k].paper_id = data[i].paper_id
         THEN PaperItems(data, i + 1, papers)
         ELSE PaperItems(data, i + 1, Append(papers, data[i]))

\* mutant of SameDoi: the test that both DOIs are non-empty dropped
SameDoiOrBothMissing(paper1, paper2) == paper1.doi = paper2.doi

\* if paper1["doi"] and paper2["doi"]: if paper1["doi"] == paper2["doi"]
SameDoi(paper1, paper2) ==
    paper1.doi # "" /\ paper2.doi # "" /\ paper1.doi = paper2.doi

\* the test of the inner loop: the first criterion on which paper2 joins the
\* group of paper1, "" when it does not join
MatchReason(paper1, paper2, thr) ==
    IF SameDoi(paper1, paper2) THEN "doi"
    ELSE IF /\ paper1.arxiv_id # <<>> /\ paper2.arxiv_id # <<>>
            /\ BaseId(paper1.arxiv_id) = BaseId(paper2.arxiv_id) THEN "arxiv"
    ELSE IF /\ FLe(thr, SimilarityScores[paper1.title, paper2.title])
            /\ FLe(AuthorThreshold, SimilarityScores[paper1.authors, paper2.authors])
         THEN "similarity"
    ELSE ""

\* mutant of MarkChecked: a paper that joined a group is not remembered
MarkCheckedDropped(checked, pid) == checked

\* checked.add(pid2)
MarkChecked(checked, pid) == checked \cup {pid}

\* the inner loop from position j on: <<group, checked>>
RECURSIVE GroupLoop(_, _, _, _, _, _)
GroupLoop(paper_list, i, j, thr, group, checked) ==
    IF j > Len(paper_list) THEN <<group, checked>>
    ELSE IF paper_list[j].paper_id \in checked
         THEN GroupLoop(paper_list, i, j + 1, thr, group, checked)
    ELSE IF MatchReason(paper_list[i], paper_list[j], thr) # ""
         THEN GroupLoop(paper_list, i, j + 1, thr,
                        Append(group, paper_list[j]),
                        MarkChecked(checked, paper_list[j].paper_id))
    ELSE GroupLoop(paper_list, i, j + 1, thr, group, checked)

\* the outer loop from position i on: the list of duplicate groups
RECURSIVE DuplicatesLoop(_, _, _, _, _)
DuplicatesLoop(paper_list, i, thr, groups, checked) ==
    IF i > Len(paper_list) THEN groups
    ELSE IF paper_list[i].paper_id \in checked
         THEN DuplicatesLoop(paper_list, i + 1, thr, groups, checked)
    ELSE CHOOSE out \in
             {IF Len(inner[1]) > 1
              THEN DuplicatesLoop(paper_list, i + 1, thr,
                       Append(groups,
                              [group_id |-> Len(groups), papers |-> inner[1],
                               reason |-> "duplicate_detected"]),
                       inner[2] \cup {paper_list[i].paper_id})
              ELSE DuplicatesLoop(paper_list, i + 1, thr, groups, inner[2]) :
                  inner \in {GroupLoop(paper_list, i, i + 1, thr,
                                       <<paper_list[i]>>, checked)}} : TRUE

\* find_duplicate_papers(threshold) on a collection holding data
find_duplicate_papers(data, thr) ==
    IF Len(data) = 0 THEN <<>>
    ELSE DuplicatesLoop(PaperItems(data, 1, <<>>), 1, thr, <<>>, {})

-----------------------------------------------------------------------------
(* api/deduplication.py: normalize_arxiv_versions *)

\* the loop over the metadata from position i on; arxiv_groups is the
\* dictionary as the list of its items [base_id, versions], in insertion order
RECURSIVE ArxivGroups(_, _, _)
ArxivGroups(data, i, arxiv_groups) ==
    IF i > Len(data) THEN arxiv_groups
    ELSE IF data[i].arxiv_id = <<>> THEN ArxivGroups(data, i + 1, arxiv_groups)
    ELSE LET base_id == BaseId(data[i].arxiv_id)
             entry == [paper_id |-> data[i].paper_id, version |-> data[i].arxiv_id,
                       title |-> data[i].title]
         IN  IF \E k \in 1..Len(arxiv_groups) : arxiv_groups[k].base_id = base_id
             THEN ArxivGroups(data, i + 1,
                      [k \in 1..Len(arxiv_groups) |->
                          IF arxiv_groups[k].base_id = base_id
                          THEN [arxiv_groups[k] EXCEPT !.versions = Append(@, entry)]
                          ELSE arxiv_groups[k]])
             ELSE ArxivGroups(data, i + 1,
                      Append(arxiv_groups, [base_id |-> base_id, versions |-> <<entry>>]))

\* normalize_arxiv_versions() on a collection holding data: the groups with
\* more than one version
normalize_arxiv_versions(data) ==
    IF Len(data) = 0 THEN <<>>
    ELSE SelectSeq(ArxivGroups(data, 1, <<>>), LAMBDA item : Len(item.versions) > 1)

-----------------------------------------------------------------------------
(* processing/chunker.py: chunk_text *)

\* mutant of Min: the second argument, whatever the first
MinIsSecond(a, b) == b

Min(a, b) == IF a < b THEN a ELSE b
Max(a, b) == IF a < b THEN b ELSE a

\* str.strip()
Strip(s) ==
    LET kept == {i \in 1..Len(s) : ~IsSpace(s[i])}
    IN  IF kept = {} THEN <<>>
        ELSE SubSeq(s, CHOOSE i \in kept : \A o \in kept : i <= o,
                       CHOOSE i \in kept : \A o \in kept : o <= i)

\* sep.join(words)
RECURSIVE Join(_, _)
Join(words, sep) ==
    IF words = <<>> THEN <<>>
    ELSE IF Len(words) = 1 THEN words[1]
    ELSE words[1] \o sep \o Join(Tail(words), sep)

\* text.replace('\r\n', '\n').replace('\r', '\n')
RECURSIVE ReplaceCrLf(_)
ReplaceCrLf(s) ==
    IF s = <<>> THEN <<>>
    ELSE IF Len(s) >= 2 /\ s[1] = "\r" /\ s[2] = "\n"
         THEN <<"\n">> \o ReplaceCrLf(SubSeq(s, 3, Len(s)))
    ELSE <<IF s[1] = "\r" THEN "\n" ELSE s[1]>> \o ReplaceCrLf(Tail(s))

\* cleaned_text = ' '.join(cleaned_text.split())
CleanText(s) == Join(Split(ReplaceCrLf(s)), <<" ">>)

\* s.rfind(sub) for sub of one or two characters: the highest 0-based index
\* at which sub occurs in s, -1 when it does not occur
RFind(s, sub) ==
    LET at == {i \in 0..(Len(s) - Len(sub)) :
                  \A k \in 1..Len(sub) : s[i + k] = sub[k]}
    IN  IF at = {} THEN -1 ELSE CHOOSE i \in at : \A o \in at : o <= i

\* max(last_period, last_newline, last_exclamation, last_question)
BreakPoint(s) ==
    Max(Max(RFind(s, <<".", " ">>), RFind(s, <<"\n">>)),
        Max(RFind(s, <<"!", " ">>), RFind(s, <<"?", " ">>)))

Chunk(chunk, index, paper_id, start_char, end_char) ==
    [text |-> chunk, index |-> index, paper_id |-> paper_id,
     start_char |-> start_char, end_char |-> end_char]

\* mutant of ApplyOverlap: the overlap added instead of subtracted
ApplyOverlapForward(start, overlap) == start + overlap

\* start_index = max(0, start_index - chunk_overlap)
ApplyOverlap(start, overlap) == Max(0, start - overlap)

\* mutant of PastHalfway: any sentence boundary found is used
PastHalfwayAnywhere(break_point, size) == break_point >= 0

\* break_point > chunk_size * 0.5 compares an integer with a float that is
\* exact: 2 * break_point > chunk_size
PastHalfway(break_point, size) == 2 * break_point > size

\* one iteration of the while loop on its state st = [start_index,
\* chunk_index, chunks]
ChunkIteration(cleaned, size, overlap, st) ==
    LET end_index == Min(st.start_index + size, Len(cleaned))
        window == SubSeq(cleaned, st.start_index + 1, end_index)
        break_point == BreakPoint(window)
        at_sentence == end_index < Len(cleaned) /\ PastHalfway(break_point, size)
        piece == IF at_sentence THEN SubSeq(window, 1, break_point + 1) ELSE window
        moved == IF at_sentence THEN st.start_index + break_point + 1 ELSE end_index
    IN  [start_index |-> IF moved < Len(cleaned) THEN ApplyOverlap(moved, overlap)
                                                 ELSE moved,
         chunk_index |-> IF Strip(piece) # <<>> THEN st.chunk_index + 1
                                                ELSE st.chunk_index,
         chunks |-> IF Strip(piece) # <<>>
                    THEN Append(st.chunks,
                                Chunk(Strip(piece), st.chunk_index, "p1",
                                      moved - Len(piece), moved))
                    ELSE st.chunks]

\* the while loop run to its end: <<"ok", chunks>>, or <<"diverges", <<>>>>
\* when an iteration begins at a start_index at which an earlier one began:
\* what an iteration does depends on start_index alone, so the loop never exits
RECURSIVE ChunkLoop(_, _, _, _, _)
ChunkLoop(cleaned, size, overlap, st, seen) ==
    IF st.start_index >= Len(cleaned) THEN <<"ok", st.chunks>>
    ELSE IF st.start_index \in seen THEN <<"diverges", <<>>>>
    ELSE ChunkLoop(cleaned, size, overlap, ChunkIteration(cleaned, size, overlap, st),
                   seen \cup {st.start_index})

\* config/settings.py: the defaults, and a small configuration
DefaultSettings == [chunk_size |-> 1000, chunk_overlap |-> 200]
SmallSettings == [chunk_size |-> 4, chunk_overlap |-> 1]

\* x or default, for an integer or None x (None is kept as 0)
OrDefault(x, default) == IF x = 0 THEN default ELSE x

\* chunk_text(text, paper_id, size, overlap) as a function of its arguments
\* and of the settings
chunk_text(s, size, overlap, config) ==
    IF s = <<>> \/ Strip(s) = <<>> THEN <<"ok", <<>>>>
    ELSE ChunkLoop(CleanText(s), OrDefault(size, config.chunk_size),
                   OrDefault(overlap, config.chunk_overlap),
                   [start_index |-> 0, chunk_index |-> 0, chunks |-> <<>>], {})

-----------------------------------------------------------------------------
(* processing/advanced_chunker.py: chunk_by_paragraphs *)

\* text.split('\n\n'): the pieces between the non-overlapping occurrences of
\* the separator, found left to right
RECURSIVE SplitParagraphs(_, _)
SplitParagraphs(s, piece) ==
    IF s = <<>> THEN <<piece>>
    ELSE IF Len(s) >= 2 /\ s[1] = "\n" /\ s[2] = "\n"
         THEN <<piece>> \o SplitParagraphs(SubSeq(s, 3, Len(s)), <<>>)
    ELSE SplitParagraphs(Tail(s), Append(piece, s[1]))

\* [p.strip() for p in text.split('\n\n') if p.strip()]
Paragraphs(s) ==
    LET pieces == SplitParagraphs(s, <<>>)
        stripped == [i \in 1..Len(pieces) |-> Strip(pieces[i])]
    IN  SelectSeq(stripped, LAMBDA p : p # <<>>)

\* a chunk built without offsets: start_char and end_char keep their default 0
ParagraphChunk(chunk, index) == Chunk(Strip(chunk), index, "p1", 0, 0)

\* the for loop from paragraph i on; st is [chunks, current_chunk,
\* chunk_index].  len(current_chunk) > max_chunk_size * 1.5 is compared
\* exactly: 2 * len > 3 * max_chunk_size
RECURSIVE ParagraphLoop(_, _, _, _, _)
ParagraphLoop(paragraphs, i, size, config, st) ==
    IF i > Len(paragraphs)
    THEN <<"ok", IF st.current_chunk # <<>>
                 THEN Append(st.chunks, ParagraphChunk(st.current_chunk, st.chunk_index))
                 ELSE st.chunks>>
    ELSE
        LET para == paragraphs[i]
            exceeds == st.current_chunk # <<>>
                       /\ Len(st.current_chunk) + Len(para) > size
            saved == IF exceeds
                     THEN [chunks |-> Append(st.chunks,
                                        ParagraphChunk(st.current_chunk, st.chunk_index)),
                           current_chunk |-> para,
                           chunk_index |-> st.chunk_index + 1]
                     ELSE [st EXCEPT !.current_chunk =
                              IF @ # <<>> THEN @ \o <<"\n", "\n">> \o para ELSE para]
        IN  CHOOSE out \in
                {IF 2 * Len(mid.current_chunk) > 3 * size
                 THEN CHOOSE split_out \in
                          {IF split_chunks[1] = "diverges" THEN split_chunks
                           ELSE ParagraphLoop(paragraphs, i + 1, size, config,
                                    [chunks |-> mid.chunks \o split_chunks[2],
                                     current_chunk |-> <<>>,
                                     chunk_index |-> mid.chunk_index + Len(split_chunks[2])]) :
                              split_chunks \in {chunk_text(mid.current_chunk, size,
                                                          config.chunk_overlap, config)}} : TRUE
                 ELSE ParagraphLoop(paragraphs, i + 1, size, config, mid) :
                    mid \in {saved}} : TRUE

\* chunk_by_paragraphs(text, paper_id, max_chunk_size): <<"ok", chunks>>, or
\* <<"diverges", <<>>>> when a chunk_text call it makes never returns
chunk_by_paragraphs(s, size, config) ==
    ParagraphLoop(Paragraphs(s), 1, OrDefault(size, config.chunk_size), config,
                  [chunks |-> <<>>, current_chunk |-> <<>>, chunk_index |-> 0])

-----------------------------------------------------------------------------
(* api/deduplication.py: merge_paper_metadata.  collection.get(where=       *)
(* {"paper_id": paper_id}, limit=1) is the lookup collection[paper_id].     *)

MergeKeys == {"title", "authors", "abstract", "doi", "arxiv_id", "year", "pdf_url"}

\* if meta.get(key): the entry is present and neither 0 nor the empty string
Truthy(key, entry) ==
    /\ entry[1] = "val"
    /\ IF key = "year" THEN entry[2] # 0 ELSE entry[2] # <<>>

\* x.split('v')
RECURSIVE SplitAt(_, _, _)
SplitAt(s, sep, piece) ==
    IF s = <<>> THEN <<piece>>
    ELSE IF s[1] = sep THEN <<piece>> \o SplitAt(Tail(s), sep, <<>>)
    ELSE SplitAt(Tail(s), sep, Append(piece, s[1]))

DigitValue(c) == CHOOSE n \in 0..9 : <<"0", "1", "2", "3", "4", "5", "6", "7", "8", "9">>[n + 1] = c

RECURSIVE DecimalValue(_, _)
DecimalValue(s, acc) ==
    IF s = <<>> THEN acc ELSE DecimalValue(Tail(s), 10 * acc + DigitValue(s[1]))

\* int(s): <<"ok", n>> for a string of decimal digits; the other strings
\* met here ("", "-int/1") are no integer literals
ParseInt(s) ==
    IF s # <<>> /\ \A i \in 1..Len(s) : s[i] \in Digits THEN <<"ok", DecimalValue(s, 0)>>
    ELSE <<"raise", "ValueError">>

\* lambda x: int(x.split('v')[1]) if 'v' in x else 0
ArxivVersion(x) ==
    IF \E i \in 1..Len(x) : x[i] = "v" THEN ParseInt(SplitAt(x, "v", <<>>)[2])
    ELSE <<"ok", 0>>

\* max(values, key=...): the first of the values whose key is the largest
FirstMax(values, keys) ==
    values[CHOOSE i \in 1..Len(values) :
               /\ \A j \in 1..Len(values) : keys[j] <= keys[i]
               /\ \A j \in 1..(i - 1) : keys[j] < keys[i]]

RECURSIVE MaxOf(_)
MaxOf(values) ==
    IF Len(values) = 1 THEN values[1] ELSE Max(values[1], MaxOf(Tail(values)))

\* The outcome of merge_paper_metadata(paper_ids): <<"ok", merged>>, where a
\* key merged lacks is Absent, or <<"raise", type>>.
merge_paper_metadata(ids, collection) ==
    LET found == SelectSeq(ids, LAMBDA pid : collection[pid][1] = "chunk")
        \* the dictionary's values, in insertion order
        all_metadata == [i \in 1..Len(found) |-> collection[found[i]][2]]
        values(key) ==
            LET entries == SelectSeq([i \in 1..Len(all_metadata) |-> all_metadata[i][key]],
                                     LAMBDA entry : Truthy(key, entry))
            IN  [i \in 1..Len(entries) |-> entries[i][2]]
        versions == [i \in 1..Len(values("arxiv_id")) |-> ArxivVersion(values("arxiv_id")[i])]
    IN  IF \E i \in 1..Len(versions) : versions[i][1] = "raise"
        THEN <<"raise", "ValueError">>
        ELSE <<"ok",
               [key \in MergeKeys |->
                   IF values(key) = <<>> THEN Absent
                   ELSE IF key = "year" THEN Val(MaxOf(values(key)))
                   ELSE IF key = "arxiv_id"
                        THEN Val(FirstMax(values(key),
                                          [i \in 1..Len(versions) |-> versions[i][2]]))
                   ELSE Val(FirstMax(values(key),
                                     [i \in 1..Len(values(key)) |-> Len(values(key)[i])]))]>>

-----------------------------------------------------------------------------
(* rag/query_expander.py *)

\* mutant of acronym_map: an expansion that holds an acronym
AcronymMapChained ==
    (<<"n", "l", "p">> :> <<"n", "a", "t", "u", "r", "a", "l", " ", "l", "a", "n", "g", "u", "a",
              "g", "e", " ", "p", "r", "o", "c", "e", "s", "s", "i", "n", "g">>)
    @@ (<<"m", "l">> :> <<"m", "a", "c", "h", "i", "n", "e", " ", "l", "e", "a", "r", "n", "i",
              "n", "g">>)
    @@ (<<"d", "l">> :> <<"d", "e", "e", "p", " ", "m", "l">>)
    @@ (<<"a", "i">> :> <<"a", "r", "t", "i", "f", "i", "c", "i", "a", "l", " ", "i", "n", "t",
              "e", "l", "l", "i", "g", "e", "n", "c", "e">>)
    @@ (<<"c", "v">> :> <<"c", "o", "m", "p", "u", "t", "e", "r", " ", "v", "i", "s", "i", "o", "n">>)

\* "nlp", "ml", "dl", "ai", "cv" and their expansions
acronym_map ==
    (<<"n", "l", "p">> :> <<"n", "a", "t", "u", "r", "a", "l", " ", "l", "a", "n", "g", "u", "a",
              "g", "e", " ", "p", "r", "o", "c", "e", "s", "s", "i", "n", "g">>)
    @@ (<<"m", "l">> :> <<"m", "a", "c", "h", "i", "n", "e", " ", "l", "e", "a", "r", "n", "i",
              "n", "g">>)
    @@ (<<"d", "l">> :> <<"d", "e", "e", "p", " ", "l", "e", "a", "r", "n", "i", "n", "g">>)
    @@ (<<"a", "i">> :> <<"a", "r", "t", "i", "f", "i", "c", "i", "a", "l", " ", "i", "n", "t",
              "e", "l", "l", "i", "g", "e", "n", "c", "e">>)
    @@ (<<"c", "v">> :> <<"c", "o", "m", "p", "u", "t", "e", "r", " ", "v", "i", "s", "i", "o", "n">>)

normalize_query(q) ==
    LET collapsed == Join(Split(q), <<" ">>)
        words == Split(Lower(collapsed))
        expanded == [i \in 1..Len(words) |->
                        IF words[i] \in DOMAIN acronym_map THEN acronym_map[words[i]]
                        ELSE words[i]]
    IN  Join(expanded, <<" ">>)

stop_words ==
    {<<"t", "h", "e">>, <<"a">>, <<"a", "n">>, <<"a", "n", "d">>,
     <<"o", "r">>, <<"b", "u", "t">>, <<"i", "n">>, <<"o", "n">>, <<"a", "t">>,
     <<"t", "o">>, <<"f", "o", "r">>, <<"o", "f">>, <<"w", "i", "t", "h">>,
     <<"b", "y">>, <<"i", "s">>, <<"a", "r", "e">>, <<"w", "a", "s">>,
     <<"w", "e", "r", "e">>, <<"w", "h", "a", "t">>, <<"h", "o", "w">>,
     <<"w", "h", "y">>, <<"w", "h", "e", "n">>, <<"w", "h", "e", "r", "e">>}

\* re.findall(r'\b\w+\b', query.lower()) gives the maximal runs of word
\* characters, in order
extract_key_terms(q) ==
    LET words == Split(PunctuationToSpace(Lower(q)))
    IN  SelectSeq(words, LAMBDA w : w \notin stop_words /\ Len(w) > 2)

\* the keys hold a space and a key term never does: "transformer" is the one
\* key a term can be equal to
synonym_map ==
    (<<"n", "e", "u", "r", "a", "l", " ", "n", "e", "t", "w", "o", "r", "k">> :>
        <<<<"d", "e", "e", "p", " ", "l", "e", "a", "r", "n", "i", "n", "g">>,
          <<"a", "r", "t", "i", "f", "i", "c", "i", "a", "l", " ", "n", "e", "u", "r",
            "a", "l", " ", "n", "e", "t", "w", "o", "r", "k">>,
          <<"A", "N", "N">>>>)
    @@ (<<"t", "r", "a", "n", "s", "f", "o", "r", "m", "e", "r">> :>
        <<<<"a", "t", "t", "e", "n", "t", "i", "o", "n", " ", "m", "e", "c", "h", "a",
            "n", "i", "s", "m">>,
          <<"s", "e", "l", "f", "-", "a", "t", "t", "e", "n", "t", "i", "o", "n">>>>)
    @@ (<<"m", "a", "c", "h", "i", "n", "e", " ", "l", "e", "a", "r", "n", "i", "n",
            "g">> :>
        <<<<"M", "L">>, <<"s", "t", "a", "t", "i", "s", "t", "i", "c", "a", "l", " ", "l", "e", "a",
            "r", "n", "i", "n", "g">>>>)
    @@ (<<"n", "a", "t", "u", "r", "a", "l", " ", "l", "a", "n", "g", "u", "a", "g",
            "e", " ", "p", "r", "o", "c", "e", "s", "s", "i", "n", "g">> :>
        <<<<"N", "L", "P">>, <<"c", "o", "m", "p", "u", "t", "a", "t", "i", "o", "n", "a", "l", " ", "l",
            "i", "n", "g", "u", "i", "s", "t", "i", "c", "s">>>>)

\* the second loop over key_terms: variations.extend(synonym_map[term_lower])
RECURSIVE Synonyms(_)
Synonyms(key_terms) ==
    IF key_terms = <<>> THEN <<>>
    ELSE (IF Lower(Head(key_terms)) \in DOMAIN synonym_map
          THEN synonym_map[Lower(Head(key_terms))] ELSE <<>>)
         \o Synonyms(Tail(key_terms))

expand_query(q) ==
    LET key_terms == extract_key_terms(q)
        plurals == [i \in 1..Len(key_terms) |->
                       LET term == key_terms[i]
                       IN  IF term[Len(term)] = "s" THEN SubSeq(term, 1, Len(term) - 1)
                           ELSE term \o <<"s">>]
        variations == plurals \o Synonyms(key_terms)
    IN  IF variations # <<>> THEN <<q, Join(Take(variations, 3), <<" ">>)>>
        ELSE <<q>>

\* expanded_text.split('\n')
RECURSIVE SplitLines(_, _)
SplitLines(s, piece) ==
    IF s = <<>> THEN <<piece>>
    ELSE IF s[1] = "\n" THEN <<piece>> \o SplitLines(Tail(s), <<>>)
    ELSE SplitLines(Tail(s), Append(piece, s[1]))

\* mutant of LimitExpansions: the slice [:4] dropped
KeepAllExpansions(expanded) == expanded

\* expanded_queries[:4]
LimitExpansions(expanded) == Take(expanded, 4)

\* The outcome of expand_query_with_llm(query): <<"ok", list>> or <<"raise",
\* exception>>.  enabled is settings.llm_provider == "openai" and
\* settings.openai_api_key; response is what the chat completion call does:
\* it raises ("raise"), returns no choice ("no_choices"), a message without
\* content ("none"), a content that is not a string ("not_str"), or a text.
expand_query_with_llm(q, enabled, response) ==
    IF ~enabled THEN <<"ok", expand_query(q)>>
    ELSE IF response[1] \in {"raise", "no_choices", "not_str"}      \* except Exception
    THEN <<"ok", expand_query(q)>>
    ELSE
        LET expanded_text == IF response[1] = "none" THEN <<>> ELSE response[2]
            pieces == SplitLines(expanded_text, <<>>)
            stripped == [i \in 1..Len(pieces) |-> Strip(pieces[i])]
            expanded == SelectSeq(stripped, LAMBDA line : line # <<>>)
        IN  <<"ok", <<q>> \o LimitExpansions(expanded)>>

-----------------------------------------------------------------------------
(* rag/pipeline.py: run_rag_pipeline.  Fetching and ingesting papers (step *)
(* 2) swallows its collaborators' failures and only adds to the index: hits *)
(* is the index as retrieval finds it.  expand_query_with_llm only feeds a  *)
(* log line.                                                                *)

\* mutant of NoContext: the test never succeeds
NoContextIgnored(context_chunks) == FALSE

\* if not context_chunks
NoContext(context_chunks) == context_chunks = <<>>

\* The outcome of run_rag_pipeline(query, top_k, use_hybrid_search,
\* use_reranking): <<"raise", message>>, or <<"generate_answer",
\* context_chunks>> when it reaches generate_answer with that context.
run_rag_pipeline(q, k, hybrid, reranking, hits) ==
    CHOOSE outcome \in
        {IF NoContext(retrieved)
         THEN <<"raise", "No relevant context found for the query">>
         ELSE IF ~reranking THEN <<"generate_answer", Take(retrieved, k)>>
         ELSE CHOOSE out \in
                  {IF reranked[1] = "raise" THEN reranked
                   ELSE <<"generate_answer", Take(ensure_diversity(reranked[2], 2), k)>> :
                      reranked \in
                          {rerank_results(retrieved,
                               [pid \in {retrieved[i].paper_id : i \in 1..Len(retrieved)} |->
                                   EmptyMetadata],
                               F01)}} : TRUE :
            retrieved \in
                {IF hybrid      \* hybrid_search(normalized_query, top_k=top_k * 2)
                 THEN HybridRank(query_vectors(hits, (k * 2) * 2), normalize_query(q),
                                 k * 2, F07, F03)
                 ELSE query_vectors(hits, k * 2)}} : TRUE       \* retrieve_context

-----------------------------------------------------------------------------
(* The components a behaviour does not exercise stay idle. *)

IdleRerank ==
    /\ results = <<>> /\ prev_results = <<>> /\ paper_metadata_map = <<>>
    /\ diversity_weight = FZero /\ max_per_paper = 0
    /\ last_op = "none" /\ raised = "" /\ ops_done = 0

IdleQuality ==
    /\ paper_metadata = EmptyMetadata /\ quality_result = <<"none">>

IdleHybrid ==
    /\ query = <<>> /\ collection_hits = <<>> /\ top_k = 1
    /\ keyword_weight = FZero /\ semantic_weight = FZero
    /\ semantic_results = <<>> /\ hybrid_results = <<>>
    /\ prev_semantic_weight = FZero /\ prev_hybrid_results = <<>> /\ searches = 0

IdleDedup ==
    /\ all_data = <<>> /\ threshold = DefaultThreshold /\ duplicates = <<>>
    /\ prev_duplicates = <<>> /\ dedup_last = "none" /\ dedup_calls = 0
    /\ arxiv_versions = <<"none">>

IdleMerge ==
    /\ collection_metadata = <<>> /\ paper_ids = <<>> /\ merged = <<"none">>
    /\ prev_merged = <<"none">> /\ merges = 0

IdleChunker ==
    /\ settings = DefaultSettings /\ text = <<>> /\ chunk_size = 0 /\ chunk_overlap = 0
    /\ cleaned_text = <<>> /\ start_index = 0 /\ chunk_index = 0 /\ chunks = <<>>
    /\ pc = "call" /\ max_chunk_size = 0 /\ para_chunks = <<"none", <<>>>>

IdleExpander ==
    /\ user_query = <<>> /\ normalized = <<>> /\ expand_argument = <<>>
    /\ llm_enabled = FALSE /\ llm_response = <<"raise">> /\ expanded_queries = <<"none">>

IdlePipeline ==
    /\ use_hybrid_search = TRUE /\ use_reranking = TRUE /\ pipeline_outcome = <<"none">>
    /\ index_metadata = <<>>

-----------------------------------------------------------------------------
(* Hybrid search runs *)

InitHybrid ==
    /\ run = "hybrid"
    /\ query \in Queries
    /\ \E n \in 0..MaxHits : \E f \in [1..n -> Texts \X {FZero, F02, FRound(18, 10), FRound(3, 1)}] :
          /\ \A i \in 1..n : \A j \in (i + 1)..n : FLe(f[i][2], f[j][2])
          /\ collection_hits =
                [i \in 1..n |-> [chunk_id |-> i, paper_id |-> IF i % 2 = 1 THEN "p1" ELSE "p2",
                                 text |-> f[i][1], distance |-> f[i][2]]]
    /\ top_k \in 1..MaxTopK
    /\ keyword_weight \in {FZero, FRound(1, 100), FRound(14, 100), F03}
    /\ semantic_weight = FZero /\ semantic_results = <<>> /\ hybrid_results = <<>>
    /\ prev_semantic_weight = FZero /\ prev_hybrid_results = <<>> /\ searches = 0
    /\ IdleRerank /\ IdleQuality /\ IdleDedup /\ IdleChunker /\ IdleExpander /\ IdlePipeline /\ IdleMerge

\* hybrid_results = hybrid_search(query, top_k, sw, keyword_weight)
HybridSearch ==
    /\ run = "hybrid" /\ searches < MaxSearches
    /\ \E sw \in {FZero, F05, F07} :
          /\ semantic_weight' = sw
          /\ semantic_results' = query_vectors(collection_hits, top_k * 2)
          /\ hybrid_results' = HybridRank(semantic_results', query, top_k, sw, keyword_weight)
    /\ prev_semantic_weight' = semantic_weight
    /\ prev_hybrid_results' = hybrid_results
    /\ searches' = searches + 1
    /\ UNCHANGED <<run, query, collection_hits, top_k, keyword_weight, rerankVars,
                   qualityVars, dedupVars, chunkerVars, expanderVars, pipelineVars, mergeVars>>

NextHybrid == HybridSearch
SpecHybrid == InitHybrid /\ [][NextHybrid]_vars

-----------------------------------------------------------------------------
(* Quality scorer and re-ranker runs *)

GoodMetadata ==
    [citation_count |-> Val(999999), year |-> Val(CurrentYear), pdf_url |-> Val(30),
     source |-> Val("arxiv"), abstract |-> Val(201), authors |-> Val(2),
     title |-> Val(5)]

InitQuality ==
    /\ run = "quality"
    /\ paper_metadata \in MetadataRecords
    /\ quality_result = <<"none">>
    /\ IdleRerank /\ IdleHybrid /\ IdleDedup /\ IdleChunker /\ IdleExpander /\ IdlePipeline /\ IdleMerge

\* one call calculate_quality_score(paper_metadata)
CalculateQualityScore ==
    /\ run = "quality"
    /\ quality_result = <<"none">>
    /\ quality_result' = calculate_quality_score(paper_metadata)
    /\ UNCHANGED <<run, paper_metadata, rerankVars, hybridVars, dedupVars, chunkerVars, expanderVars, pipelineVars, mergeVars>>

InitRerank ==
    /\ run = "rerank"
    /\ \E n \in 0..MaxResults : \E f \in [1..n -> PaperIds \X {FZero, F05, FOne}] :
          results = [i \in 1..n |-> QueryResult(i, f[i][1], f[i][2], NoScores)]
    /\ prev_results = <<>>
    /\ paper_metadata_map \in
          [PaperIds -> {EmptyMetadata, GoodMetadata,
                        [EmptyMetadata EXCEPT !.citation_count = None]}]
    /\ diversity_weight \in {F01, FOne}
    /\ max_per_paper \in 0..MaxPerPaper
    /\ last_op = "none" /\ raised = "" /\ ops_done = 0
    /\ IdleQuality /\ IdleHybrid /\ IdleDedup /\ IdleChunker /\ IdleExpander /\ IdlePipeline /\ IdleMerge

\* results = rerank_results(results, paper_metadata_map, diversity_weight)
RerankResults ==
    /\ run = "rerank" /\ raised = "" /\ ops_done < MaxOps
    /\ \E out \in {rerank_results(results, paper_metadata_map, diversity_weight)} :
           /\ raised' = IF out[1] = "raise" THEN out[2] ELSE ""
           /\ results' = IF out[1] = "raise" THEN results ELSE out[2]
    /\ prev_results' = results
    /\ last_op' = "rerank_results"
    /\ ops_done' = ops_done + 1
    /\ UNCHANGED <<run, paper_metadata_map, diversity_weight, max_per_paper, qualityVars,
                   hybridVars, dedupVars, chunkerVars, expanderVars, pipelineVars, mergeVars>>

\* results = ensure_diversity(results, max_per_paper)
EnsureDiversity ==
    /\ run = "rerank" /\ raised = "" /\ ops_done < MaxOps
    /\ results' = ensure_diversity(results, max_per_paper)
    /\ prev_results' = results
    /\ last_op' = "ensure_diversity"
    /\ ops_done' = ops_done + 1
    /\ UNCHANGED <<run, raised, paper_metadata_map, diversity_weight, max_per_paper,
                   qualityVars, hybridVars, dedupVars, chunkerVars, expanderVars, pipelineVars, mergeVars>>

\* quality-scorer runs and re-ranker runs together
InitScoring == InitQuality \/ InitRerank
NextScoring == CalculateQualityScore \/ RerankResults \/ EnsureDiversity
SpecScoring == InitScoring /\ [][NextScoring]_vars

-----------------------------------------------------------------------------
(* Deduplicator runs *)

PaperName(i) == <<"p1", "p2", "p3", "p4", "p5">>[i]

\* the orders in which the collection can return the same chunks
Reorderings(list) ==
    {[i \in 1..Len(list) |-> list[perm[i]]] :
        perm \in {f \in [1..Len(list) -> 1..Len(list)] :
                     \A i, j \in 1..Len(list) : f[i] = f[j] => i = j}}

InitDedup ==
    /\ run = "dedup"
    /\ \E n \in 0..MaxPapers : \E f \in [1..n -> {"", "10.1/x"} \X {<<>>, <<"1", "v", "1">>, <<"1", "v", "2">>}
                                               \X TitleAuthors] :
          all_data = [i \in 1..n |->
                         [paper_id |-> PaperName(i), title |-> f[i][3][1],
                          authors |-> f[i][3][2], doi |-> f[i][1],
                          arxiv_id |-> f[i][2]]]
    /\ threshold \in {DefaultThreshold, <<9, 10>>}
    /\ duplicates = <<>> /\ prev_duplicates = <<>>
    /\ dedup_last = "none" /\ dedup_calls = 0 /\ arxiv_versions = <<"none">>
    /\ IdleRerank /\ IdleQuality /\ IdleHybrid /\ IdleChunker /\ IdleExpander /\ IdlePipeline /\ IdleMerge

\* duplicates = find_duplicate_papers(threshold)
FindDuplicatePapers ==
    /\ run = "dedup" /\ dedup_calls < MaxDedupCalls
    /\ dedup_last # "find_duplicate_papers"
    /\ duplicates' = find_duplicate_papers(all_data, threshold)
    /\ prev_duplicates' = duplicates
    /\ dedup_last' = "find_duplicate_papers"
    /\ dedup_calls' = dedup_calls + 1
    /\ UNCHANGED <<run, all_data, threshold, arxiv_versions, rerankVars, qualityVars,
                   hybridVars, chunkerVars, expanderVars, pipelineVars, mergeVars>>

\* the same corpus is stored, and returned by collection.get, in another order
ReorderCollection ==
    /\ run = "dedup" /\ dedup_last = "find_duplicate_papers"
    /\ dedup_calls < MaxDedupCalls
    /\ all_data' \in Reorderings(all_data) \ {all_data}
    /\ dedup_last' = "reorder"
    /\ UNCHANGED <<run, threshold, duplicates, prev_duplicates, dedup_calls, arxiv_versions,
                   rerankVars, qualityVars, hybridVars, chunkerVars, expanderVars,
                   pipelineVars, mergeVars>>

NextDedup == FindDuplicatePapers \/ ReorderCollection
SpecDedup == InitDedup /\ [][NextDedup]_vars

-----------------------------------------------------------------------------
(* arXiv version runs: papers without DOI, unlike in title and authors *)

\* "1v1", "1v5", "2v1", "1", "solv/1v1", "solv/2v1"
SampleCorpusArxivIds ==
    {<<>>, <<"1", "v", "1">>, <<"1", "v", "5">>, <<"2", "v", "1">>, <<"1">>,
     <<"s", "o", "l", "v", "/", "1", "v", "1">>, <<"s", "o", "l", "v", "/", "2", "v", "1">>}

InitArxiv ==
    /\ run = "dedup"
    /\ \E n \in 0..MaxPapers : \E f \in [1..n -> SampleCorpusArxivIds] :
          all_data = [i \in 1..n |->
                         [paper_id |-> PaperName(i),
                          title |-> IF i % 3 = 2 THEN <<"v", "w", "x", "y", "z">>
                                    ELSE <<"A", "b", "c", "d", "e", "f", "g">>,
                          authors |-> IF i % 3 = 0 THEN <<"w", "x", "y", "z">>
                                      ELSE <<"a", "b", "c", "d">>,
                          doi |-> "", arxiv_id |-> f[i]]]
    /\ threshold = DefaultThreshold
    /\ duplicates = <<>> /\ prev_duplicates = <<>>
    /\ dedup_last = "none" /\ dedup_calls = 0 /\ arxiv_versions = <<"none">>
    /\ IdleRerank /\ IdleQuality /\ IdleHybrid /\ IdleChunker /\ IdleExpander /\ IdlePipeline /\ IdleMerge

\* arxiv_versions = normalize_arxiv_versions()
NormalizeArxivVersions ==
    /\ run = "dedup" /\ arxiv_versions = <<"none">>
    /\ arxiv_versions' = <<"ok", normalize_arxiv_versions(all_data)>>
    /\ UNCHANGED <<run, all_data, threshold, duplicates, prev_duplicates, dedup_last,
                   dedup_calls, rerankVars, qualityVars, hybridVars, chunkerVars,
                   expanderVars, pipelineVars, mergeVars>>

NextArxiv == FindDuplicatePapers \/ NormalizeArxivVersions
SpecArxiv == InitArxiv /\ [][NextArxiv]_vars

-----------------------------------------------------------------------------
(* Metadata merge runs *)

MemberName(i) == <<"p1", "p2", "p3">>[i]

\* "Deep Learning", "deep learning", "Deep Learning."
SampleTitles ==
    {Absent, Val(<<>>),
     Val(<<"D", "e", "e", "p", " ", "L", "e", "a", "r", "n", "i", "n", "g">>),
     Val(<<"d", "e", "e", "p", " ", "l", "e", "a", "r", "n", "i", "n", "g">>),
     Val(<<"D", "e", "e", "p", " ", "L", "e", "a", "r", "n", "i", "n", "g", ".">>)}
\* "1v1", "2v1", "1v2", "1", "solv-int/1v1"
SampleArxivIds ==
    {Absent, Val(<<"1", "v", "1">>), Val(<<"2", "v", "1">>), Val(<<"1", "v", "2">>),
     Val(<<"1">>), Val(<<"s", "o", "l", "v", "-", "i", "n", "t", "/", "1", "v", "1">>)}
SampleYears == {Absent, Val(2020), Val(2021)}

\* the metadata of a stored paper
SampleMetadata ==
    {[key \in MergeKeys |->
         IF key = "title" THEN f[1] ELSE IF key = "arxiv_id" THEN f[2]
         ELSE IF key = "year" THEN f[3] ELSE Absent] :
        f \in SampleTitles \X SampleArxivIds \X SampleYears}

InitMerge ==
    /\ run = "merge"
    /\ \E n \in 1..MaxMembers :
          collection_metadata \in
              [{MemberName(i) : i \in 1..n} ->
                  {<<"none">>} \cup {<<"chunk", meta>> : meta \in SampleMetadata}]
    /\ paper_ids = <<>> /\ merged = <<"none">> /\ prev_merged = <<"none">> /\ merges = 0
    /\ IdleRerank /\ IdleQuality /\ IdleHybrid /\ IdleDedup /\ IdleChunker /\ IdleExpander /\ IdlePipeline

\* merged = merge_paper_metadata(ids), for the members in some order
MergePaperMetadata ==
    /\ run = "merge" /\ merges < MaxMerges
    /\ \E n \in {Cardinality(DOMAIN collection_metadata)} :
       \E ids \in Reorderings([i \in 1..n |-> MemberName(i)]) :
          /\ paper_ids' = ids
          /\ merged' = merge_paper_metadata(ids, collection_metadata)
    /\ prev_merged' = merged
    /\ merges' = merges + 1
    /\ UNCHANGED <<run, collection_metadata, rerankVars, qualityVars, hybridVars, dedupVars,
                   chunkerVars, expanderVars, pipelineVars>>

NextMerge == MergePaperMetadata
SpecMerge == InitMerge /\ [][NextMerge]_vars

-----------------------------------------------------------------------------
(* Chunker runs *)

\* the strings over an alphabet, up to a length
StringsOver(alphabet, n) == UNION {[1..k -> alphabet] : k \in 0..n}

InitChunk ==
    /\ run = "chunk"
    /\ settings = DefaultSettings
    /\ text \in StringsOver({"a", ".", " "}, MaxTextLen)
    \* the arguments: both None, or 0 < chunk_overlap < chunk_size
    /\ \E so \in {<<0, 0>>} \cup
                 {so \in (2..MaxChunkSize) \X (1..MaxChunkSize) : so[2] < so[1]} :
          chunk_size = so[1] /\ chunk_overlap = so[2]
    /\ cleaned_text = <<>> /\ start_index = 0 /\ chunk_index = 0 /\ chunks = <<>>
    /\ pc = "call"
    /\ max_chunk_size = 0 /\ para_chunks = <<"none", <<>>>>
    /\ IdleRerank /\ IdleQuality /\ IdleHybrid /\ IdleDedup /\ IdleExpander /\ IdlePipeline /\ IdleMerge

\* chunk_text up to the loop: the early return, the defaults, the cleaning
ChunkTextCall ==
    /\ run = "chunk" /\ pc = "call"
    /\ IF text = <<>> \/ Strip(text) = <<>>
       THEN /\ pc' = "done"
            /\ UNCHANGED <<chunk_size, chunk_overlap, cleaned_text, expanderVars, pipelineVars, mergeVars>>
       ELSE /\ chunk_size' = OrDefault(chunk_size, settings.chunk_size)
            /\ chunk_overlap' = OrDefault(chunk_overlap, settings.chunk_overlap)
            /\ cleaned_text' = CleanText(text)
            /\ pc' = "loop"
    /\ UNCHANGED <<run, settings, text, start_index, chunk_index, chunks, max_chunk_size,
                   para_chunks, rerankVars, qualityVars, hybridVars, dedupVars, expanderVars, pipelineVars, mergeVars>>

\* one iteration of the while loop
ChunkTextIteration ==
    /\ run = "chunk" /\ pc = "loop"
    /\ start_index < Len(cleaned_text)
    /\ Len(chunks) < MaxChunks
    /\ \E st \in {ChunkIteration(cleaned_text, chunk_size, chunk_overlap,
                                 [start_index |-> start_index,
                                  chunk_index |-> chunk_index, chunks |-> chunks])} :
          /\ start_index' = st.start_index
          /\ chunk_index' = st.chunk_index
          /\ chunks' = st.chunks
    /\ UNCHANGED <<run, settings, text, chunk_size, chunk_overlap, cleaned_text, pc,
                   max_chunk_size, para_chunks, rerankVars, qualityVars, hybridVars,
                   dedupVars, expanderVars, pipelineVars, mergeVars>>

\* the loop condition fails: return chunks
ChunkTextReturn ==
    /\ run = "chunk" /\ pc = "loop"
    /\ start_index >= Len(cleaned_text)
    /\ pc' = "done"
    /\ UNCHANGED <<run, settings, text, chunk_size, chunk_overlap, cleaned_text,
                   start_index, chunk_index, chunks, max_chunk_size, para_chunks,
                   rerankVars, qualityVars, hybridVars, dedupVars, expanderVars, pipelineVars, mergeVars>>

InitParagraphs ==
    /\ run = "paragraphs"
    /\ settings \in {DefaultSettings, SmallSettings}
    /\ text \in StringsOver({"a", " ", "\n"}, MaxParagraphsLen)
    /\ max_chunk_size \in {0, 2, 3}
    /\ para_chunks = <<"none", <<>>>>
    /\ chunk_size = 0 /\ chunk_overlap = 0 /\ cleaned_text = <<>>
    /\ start_index = 0 /\ chunk_index = 0 /\ chunks = <<>> /\ pc = "call"
    /\ IdleRerank /\ IdleQuality /\ IdleHybrid /\ IdleDedup /\ IdleExpander /\ IdlePipeline /\ IdleMerge

\* para_chunks = chunk_by_paragraphs(text, paper_id, max_chunk_size)
ChunkByParagraphs ==
    /\ run = "paragraphs" /\ para_chunks[1] = "none"
    /\ para_chunks' = chunk_by_paragraphs(text, max_chunk_size, settings)
    /\ UNCHANGED <<run, settings, text, max_chunk_size, chunk_size, chunk_overlap,
                   cleaned_text, start_index, chunk_index, chunks, pc, rerankVars,
                   qualityVars, hybridVars, dedupVars, expanderVars, pipelineVars, mergeVars>>

\* chunk_text runs and chunk_by_paragraphs runs together
InitChunking == InitChunk \/ InitParagraphs
NextChunking == ChunkTextCall \/ ChunkTextIteration \/ ChunkTextReturn \/ ChunkByParagraphs
SpecChunking == InitChunking /\ [][NextChunking]_vars

-----------------------------------------------------------------------------
(* Query expander runs *)

\* "Transformers for NLP", "  AI and\tML ", "transformer cats", "the nlp"
SampleQueries ==
    {<<"T", "r", "a", "n", "s", "f", "o", "r", "m", "e", "r", "s", " ", "f", "o", "r",
       " ", "N", "L", "P">>,
     <<" ", " ", "A", "I", " ", "a", "n", "d", "\t", "M", "L", " ">>,
     <<"t", "r", "a", "n", "s", "f", "o", "r", "m", "e", "r", " ", "c", "a", "t", "s">>,
     <<"t", "h", "e", " ", "n", "l", "p">>}

\* texts the chat completion may return: nothing, one line, blank lines and
\* padding, more lines than are kept
LlmTexts ==
    {<<>>, <<"x">>, <<" ", "\n", " ">>,
     <<"d", "e", "e", "p", " ", "l", "e", "a", "r", "n", "i", "n", "g", "\n", "\n",
       " ", "a", "t", "t", "e", "n", "t", "i", "o", "n", " ", "\n">>,
     <<"a", "\n", "b", "\n", " ", "c", "\n", "d", "\n", "e", "\n", "f">>}

LlmResponses ==
    {<<"raise">>, <<"no_choices">>, <<"none">>, <<"not_str">>} \cup {<<"text", t>> : t \in LlmTexts}

InitExpander ==
    /\ run = "expander"
    /\ user_query \in SampleQueries \cup
           StringsOver({" ", "a", "i", "m", "l", "d", "c", "v", "A", "s"}, MaxQueryLen)
    /\ normalized = <<>> /\ expand_argument = <<>>
    /\ llm_enabled = FALSE /\ llm_response = <<"raise">> /\ expanded_queries = <<"none">>
    /\ IdleRerank /\ IdleQuality /\ IdleHybrid /\ IdleDedup /\ IdleChunker /\ IdlePipeline /\ IdleMerge

\* the query as it stands: the user's, or its last normalisation
CurrentQuery == IF normalized = <<>> THEN user_query ELSE normalized[Len(normalized)]

\* one call normalize_query(query) on the query as it stands
NormalizeQuery ==
    /\ run = "expander" /\ Len(normalized) < MaxNormalizations
    /\ expanded_queries = <<"none">>
    /\ normalized' = Append(normalized, normalize_query(CurrentQuery))
    /\ UNCHANGED <<run, user_query, expand_argument, llm_enabled, llm_response,
                   expanded_queries, rerankVars, qualityVars, hybridVars, dedupVars,
                   chunkerVars, pipelineVars, mergeVars>>

\* one call expand_query_with_llm(query) on the query as it stands
ExpandQueryWithLlm ==
    /\ run = "expander" /\ expanded_queries = <<"none">>
    /\ expand_argument' = CurrentQuery
    /\ \E enabled \in BOOLEAN :
       \E response \in IF enabled THEN LlmResponses ELSE {<<"raise">>} :
          /\ llm_enabled' = enabled
          /\ llm_response' = response
          /\ expanded_queries' = expand_query_with_llm(CurrentQuery, enabled, response)
    /\ UNCHANGED <<run, user_query, normalized, rerankVars, qualityVars, hybridVars,
                   dedupVars, chunkerVars, pipelineVars, mergeVars>>

NextExpander == NormalizeQuery \/ ExpandQueryWithLlm
SpecExpander == InitExpander /\ [][NextExpander]_vars

-----------------------------------------------------------------------------
(* Pipeline runs, together with the runs of the stages it calls *)

InitRagPipeline ==
    /\ run = "pipeline"
    \* "neural networks", " Neural  networks"
    /\ query \in {<<"n", "e", "u", "r", "a", "l", " ", "n", "e", "t", "w", "o", "r",
                    "k", "s">>,
                  <<" ", "N", "e", "u", "r", "a", "l", " ", " ", "n", "e", "t", "w",
                    "o", "r", "k", "s">>}
    /\ \E n \in 0..MaxHits : \E f \in [1..n -> Texts \X {FZero, F02, FRound(18, 10), FRound(3, 1)}] :
          /\ \A i \in 1..n : \A j \in (i + 1)..n : FLe(f[i][2], f[j][2])
          /\ collection_hits =
                [i \in 1..n |-> [chunk_id |-> i, paper_id |-> IF i % 2 = 1 THEN "p1" ELSE "p2",
                                 text |-> f[i][1], distance |-> f[i][2]]]
    /\ top_k \in 1..MaxTopK
    /\ use_hybrid_search \in BOOLEAN /\ use_reranking \in BOOLEAN
    /\ pipeline_outcome = <<"none">>
    \* ingest_pdf_from_url's upsert_metadata of a paper without and with a
    \* year, an arXiv source, a long abstract and a five-word title
    /\ index_metadata \in
          [PaperIds ->
              {[citation_count |-> Absent, year |-> Absent, pdf_url |-> Val(30),
                source |-> Val("pdf_url"), abstract |-> Val(0), authors |-> Val(7),
                title |-> Val(1)],
               [citation_count |-> Absent, year |-> Val(CurrentYear - 1),
                pdf_url |-> Val(30), source |-> Val("arxiv"), abstract |-> Val(201),
                authors |-> Val(7), title |-> Val(5)]}]
    /\ keyword_weight = FZero /\ semantic_weight = FZero
    /\ semantic_results = <<>> /\ hybrid_results = <<>>
    /\ prev_semantic_weight = FZero /\ prev_hybrid_results = <<>> /\ searches = 0
    /\ IdleRerank /\ IdleQuality /\ IdleDedup /\ IdleChunker /\ IdleExpander /\ IdleMerge

\* one call run_rag_pipeline(query, top_k, use_hybrid_search=..., use_reranking=...)
RunRagPipeline ==
    /\ run = "pipeline" /\ pipeline_outcome = <<"none">>
    /\ pipeline_outcome' = run_rag_pipeline(query, top_k, use_hybrid_search, use_reranking,
                                            collection_hits)
    /\ UNCHANGED <<run, use_hybrid_search, use_reranking, index_metadata, rerankVars,
                   qualityVars, hybridVars, dedupVars, chunkerVars, expanderVars,
                   mergeVars>>

InitPipeline == InitRagPipeline \/ InitHybrid \/ InitRerank
NextPipeline == RunRagPipeline \/ HybridSearch \/ RerankResults \/ EnsureDiversity
SpecPipeline == InitPipeline /\ [][NextPipeline]_vars

-----------------------------------------------------------------------------
(* Claims on the re-ranker and the quality scorer *)

Occurrences(rs, paper_id) == Cardinality({i \in 1..Len(rs) : rs[i].paper_id = paper_id})

\* C1: the list returned by ensure_diversity contains no paper_id more than
\* max_per_paper times, whatever the input list and whatever max_per_paper.
DiversityCap ==
    last_op = "ensure_diversity" =>
        \A p \in PaperIds : Occurrences(results, p) <= max_per_paper

\* C1 witness: ensure_diversity was handed a list holding more than
\* max_per_paper >= 1 results of one paper and returned a non-empty list.
DiversityCapWitness ==
    /\ last_op = "ensure_diversity"
    /\ max_per_paper >= 1
    /\ \E p \in PaperIds : Occurrences(prev_results, p) > max_per_paper
    /\ Len(results) >= 2

\* C9: every score calculate_quality_score returns lies in [0,1], and every
\* final_score rerank_results produces (base scores in [0,1], diversity_weight
\* in [0,1]) lies in [0,1], as does the quality score it blends in.
QualityAndFinalScoreBounds ==
    /\ quality_result[1] = "ok" => InUnit(quality_result[2])
    /\ (last_op = "rerank_results" /\ raised = "") =>
          \A i \in 1..Len(results) :
              results[i].metadata.final_score[1] = "val" =>
                  /\ InUnit(results[i].metadata.final_score[2])
                  /\ InUnit(results[i].metadata.quality_score[2])
                  /\ results[i].score = results[i].metadata.final_score[2]

\* C9 witness: the scorer returned its largest score for a complete record,
\* or the re-ranker scored a first-seen result of base score 1.0 from a
\* paper of that quality with diversity_weight 1.0.
QualityAndFinalScoreWitness ==
    \/ /\ quality_result[1] = "ok"
       /\ paper_metadata = GoodMetadata
       /\ FLt(F09, quality_result[2])
    \/ /\ last_op = "rerank_results" /\ raised = "" /\ diversity_weight = FOne
       /\ \E i \in 1..Len(results) :
             /\ results[i].metadata.base_score = Val(FOne)
             /\ FLt(F09, results[i].metadata.quality_score[2])
             /\ FLt(F09, results[i].score)

\* C14: calculate_quality_score never raises for a metadata record in which
\* any of the fields is missing, be its key absent or its value None
QualityScoreToleratesMissingFields ==
    quality_result # <<"none">> => quality_result[1] = "ok"

\* the position in the argument of the last call of the candidate r
InputPosition(r) == CHOOSE p \in 1..Len(prev_results) : prev_results[p].chunk_id = r.chunk_id

\* C24: rerank_results gives the bonus 0.1 x diversity_weight to the first
\* candidate of each paper_id in input order and to no other; each final_score
\* is 0.6 x base score + 0.3 x quality score + that bonus; the output holds
\* the candidates of the input sorted by final_score descending, ties in
\* input order.
FirstSeenBonusAndScoreOrder ==
    (last_op = "rerank_results" /\ raised = "") =>
        /\ Len(results) = Len(prev_results)
        /\ \A i \in 1..Len(results) :
              \E p \in 1..Len(prev_results) :
                  LET first_seen == \A o \in 1..(p - 1) :
                                        prev_results[o].paper_id # prev_results[p].paper_id
                      bonus == IF first_seen THEN FMul(diversity_weight, FRound(1, 10))
                               ELSE FZero
                  IN  /\ prev_results[p].chunk_id = results[i].chunk_id
                      /\ prev_results[p].paper_id = results[i].paper_id
                      /\ results[i].metadata.base_score = Val(prev_results[p].score)
                      /\ results[i].metadata.quality_score =
                             Val(calculate_quality_score(
                                     paper_metadata_map[results[i].paper_id])[2])
                      /\ results[i].score =
                             FAdd(FAdd(FMul(FRound(6, 10), prev_results[p].score),
                                       FMul(FRound(3, 10), results[i].metadata.quality_score[2])),
                                  bonus)
                      /\ results[i].metadata.final_score = Val(results[i].score)
        /\ \A i, j \in 1..Len(results) :
              i < j =>
                  \/ FLt(results[j].score, results[i].score)
                  \/ /\ results[j].score = results[i].score
                     /\ InputPosition(results[i]) < InputPosition(results[j])

\* C24 witness: rerank_results returned three candidates in another order
\* than it got them, two of them of one paper with the same base score, the
\* first of the two in input order ahead of the other by its bonus, and two
\* with equal final_score.
FirstSeenBonusWitness ==
    /\ last_op = "rerank_results" /\ raised = "" /\ Len(results) = 3
    /\ \E i \in 1..3 : results[i].chunk_id # prev_results[i].chunk_id
    /\ \E i, j \in 1..3 :
          /\ i < j /\ results[i].paper_id = results[j].paper_id
          /\ results[i].metadata.base_score = results[j].metadata.base_score
          /\ FLt(results[j].score, results[i].score)
          /\ InputPosition(results[i]) < InputPosition(results[j])
    /\ \E i \in 1..2 : results[i].score = results[i + 1].score

\* the positions of the input whose candidate is among the first
\* max_per_paper candidates of its paper
FirstOfPaper ==
    {p \in 1..Len(prev_results) :
        Cardinality({o \in 1..(p - 1) :
                        prev_results[o].paper_id = prev_results[p].paper_id}) < max_per_paper}

\* C25: ensure_diversity returns the subsequence of its input that holds, for
\* each paper_id, its first min(max_per_paper, n) candidates, in input order;
\* applying it again with the same max_per_paper returns the same list.
DiversityKeepsFirstOfEachPaper ==
    last_op = "ensure_diversity" =>
        /\ Len(results) = Cardinality(FirstOfPaper)
        /\ \A i \in 1..Len(results) :
              results[i] = prev_results[CHOOSE p \in FirstOfPaper :
                                           Cardinality({o \in FirstOfPaper : o < p}) = i - 1]
        /\ ensure_diversity(results, max_per_paper) = results

\* C25 witness: ensure_diversity dropped a candidate and kept one that came
\* after it in the input.
DiversityKeepsFirstWitness ==
    /\ last_op = "ensure_diversity" /\ max_per_paper > 0
    /\ Len(results) < Len(prev_results)
    /\ \E p \in 1..(Len(prev_results) - 1) :
          /\ \A i \in 1..Len(results) : results[i].chunk_id # prev_results[p].chunk_id
          /\ results[Len(results)].chunk_id = prev_results[Len(prev_results)].chunk_id

\* C28: the recency contribution is non-increasing in the paper's age: a
\* paper scores at least what the same paper with an earlier publication
\* year scores, all other metadata being equal.
NewerPaperScoresNoLower ==
    (quality_result # <<"none">> /\ quality_result[1] = "ok"
         /\ paper_metadata.year[1] = "val") =>
        \A older \in MetadataRecords :
            (/\ older.year[1] = "val" /\ older.year[2] < paper_metadata.year[2]
             /\ older = [paper_metadata EXCEPT !.year = older.year]) =>
                FLe(calculate_quality_score(older)[2], quality_result[2])

-----------------------------------------------------------------------------
(* Claims on hybrid_search *)

IsMaxSemantic(r) ==
    \A c \in 1..Len(semantic_results) : FLe(semantic_results[c].score, r.metadata.semantic_score[2])

\* the candidates returned by both of the last two calls, as pairs of their
\* positions <<in prev_hybrid_results, in hybrid_results>>
ReturnedTwice ==
    {pr \in (1..Len(prev_hybrid_results)) \X (1..Len(hybrid_results)) :
        prev_hybrid_results[pr[1]].chunk_id = hybrid_results[pr[2]].chunk_id}

\* the rounding error the float operations of one combined_score can add up
\* to: four units in the last place of 1.0
RoundingSlack == FRound(4, MaxMantissa)

\* C5 as stated: raising semantic_weight (keyword_weight and the keyword score
\* unchanged) never lowers the combined_score of a candidate whose semantic
\* score is the maximum among the candidates; a drop within the rounding error
\* of the float operations is not counted.
CombinerMonotoneForMaxSemantic ==
    (searches = 2 /\ FLt(prev_semantic_weight, semantic_weight)) =>
        \A pr \in ReturnedTwice :
            IsMaxSemantic(hybrid_results[pr[2]]) =>
                FLe(prev_hybrid_results[pr[1]].score,
                    FAdd(hybrid_results[pr[2]].score, RoundingSlack))

\* C5 amended: raising semantic_weight (keyword_weight >= 0 and the keyword
\* score unchanged) never lowers, beyond floating-point rounding error, the
\* combined_score of a candidate whose semantic score is the maximum among the
\* candidates and at least its own keyword score.
CombinerMonotoneWhenSemanticDominates ==
    (searches = 2 /\ FLt(prev_semantic_weight, semantic_weight)) =>
        \A pr \in ReturnedTwice :
            LET r == hybrid_results[pr[2]]
            IN  (/\ IsMaxSemantic(r)
                 /\ FLe(r.metadata.keyword_score[2], r.metadata.semantic_score[2])) =>
                    FLe(prev_hybrid_results[pr[1]].score, FAdd(r.score, RoundingSlack))

\* C5 witness: a second search with a larger semantic_weight and a positive
\* keyword_weight returned a top candidate whose semantic score exceeds its
\* non-zero keyword score, with a strictly larger combined_score than before.
CombinerMonotoneWitness ==
    /\ searches = 2 /\ FLt(prev_semantic_weight, semantic_weight)
    /\ FLt(FZero, keyword_weight)
    /\ \E pr \in ReturnedTwice :
          LET r == hybrid_results[pr[2]]
          IN  /\ IsMaxSemantic(r)
              /\ FLt(FZero, r.metadata.keyword_score[2])
              /\ FLt(r.metadata.keyword_score[2], r.metadata.semantic_score[2])
              /\ FLt(prev_hybrid_results[pr[1]].score, r.score)

\* the scores simple_keyword_match returns for the queries and texts of the
\* model and for the empty string
AllKeywordScores ==
    {simple_keyword_match(q, txt) : q \in Queries \cup {<<>>}, txt \in Texts \cup {<<>>}}

\* C8: every keyword score simple_keyword_match returns lies in [0,1], and
\* for semantic scores in [0,1] and non-negative weights every combined_score
\* hybrid_search produces lies in [0,1].
HybridScoreBounds ==
    /\ \A keyword_score \in AllKeywordScores : InUnit(keyword_score)
    /\ \A i \in 1..Len(hybrid_results) :
          /\ InUnit(hybrid_results[i].metadata.keyword_score[2])
          /\ InUnit(hybrid_results[i].metadata.combined_score[2])

\* the position of a returned result in the list the vector index returned
CandidatePosition(r) == CHOOSE c \in 1..Len(semantic_results) : semantic_results[c].chunk_id = r.chunk_id

\* C10: the list hybrid_search returns is in descending combined_score order,
\* results of equal combined_score keep the order in which the vector index
\* returned them, and the list is the first top_k elements of that order:
\* every candidate left out ranks after all the returned ones.
HybridSortedStableTopK ==
    searches > 0 =>
        LET weights == NormalizeWeights(semantic_weight, keyword_weight)
            combined(c) == CombinedScore(weights[1], weights[2], semantic_results[c].score,
                                         KeywordScores[query, semantic_results[c].text])
            returned == {CandidatePosition(hybrid_results[i]) : i \in 1..Len(hybrid_results)}
        IN  /\ Len(hybrid_results) = IF top_k < Len(semantic_results) THEN top_k ELSE Len(semantic_results)
            /\ \A i \in 1..Len(hybrid_results) :
                  /\ \E c \in 1..Len(semantic_results) :
                        semantic_results[c].chunk_id = hybrid_results[i].chunk_id
                  /\ hybrid_results[i].score = combined(CandidatePosition(hybrid_results[i]))
            /\ \A i \in 1..Len(hybrid_results) : \A j \in (i + 1)..Len(hybrid_results) :
                  /\ FLe(hybrid_results[j].score, hybrid_results[i].score)
                  /\ hybrid_results[j].score = hybrid_results[i].score =>
                        CandidatePosition(hybrid_results[i]) < CandidatePosition(hybrid_results[j])
            /\ \A c \in (1..Len(semantic_results)) \ returned : \A i \in 1..Len(hybrid_results) :
                  /\ FLe(combined(c), hybrid_results[i].score)
                  /\ combined(c) = hybrid_results[i].score =>
                        CandidatePosition(hybrid_results[i]) < c

\* C10 witness: a search whose combined scores reorder the candidates, return
\* two results of equal combined_score and leave a candidate out.
HybridSortedStableTopKWitness ==
    /\ searches > 0
    /\ Len(hybrid_results) = 2 /\ Len(semantic_results) > 2
    /\ hybrid_results[1].score = hybrid_results[2].score
    /\ \E i \in 1..Len(hybrid_results) : CandidatePosition(hybrid_results[i]) # i

\* C16: when semantic_weight + keyword_weight is 0 hybrid_search behaves as
\* with the weights (1, 0): every combined_score is the candidate's semantic
\* score and the results are the first top_k candidates in the order of the
\* semantic ranking
ZeroWeightsFallBackToSemantic ==
    (searches > 0 /\ FAdd(semantic_weight, keyword_weight) = FZero) =>
        /\ Len(hybrid_results) = Len(Take(semantic_results, top_k))
        /\ \A i \in 1..Len(hybrid_results) :
              /\ hybrid_results[i].chunk_id = semantic_results[i].chunk_id
              /\ hybrid_results[i].score = semantic_results[i].score
              /\ hybrid_results[i].metadata.combined_score = Val(semantic_results[i].score)

\* a search with both weights 0 whose candidates the keyword scores would
\* have put in another order
ZeroWeightsFallBackWitness ==
    /\ searches > 0 /\ semantic_weight = FZero /\ keyword_weight = FZero
    /\ Len(hybrid_results) = 2
    /\ FLt(hybrid_results[2].score, hybrid_results[1].score)
    /\ FLt(hybrid_results[1].metadata.keyword_score[2],
           hybrid_results[2].metadata.keyword_score[2])

\* candidate a of the index's answer is at least candidate b in semantic and
\* in keyword score, and more in one of them
Dominates(a, b) ==
    LET keyword(c) == KeywordScores[query, semantic_results[c].text]
    IN  /\ FLe(semantic_results[b].score, semantic_results[a].score)
        /\ FLe(keyword(b), keyword(a))
        /\ FLt(semantic_results[b].score, semantic_results[a].score)
           \/ FLt(keyword(b), keyword(a))

\* C17: with positive weights, a candidate that dominates another one is
\* ranked strictly above it: where the dominated one is returned, the
\* dominating one is returned before it
DominatingCandidateRanksAbove ==
    (searches > 0 /\ FLt(FZero, semantic_weight) /\ FLt(FZero, keyword_weight)) =>
        \A a, b \in 1..Len(semantic_results) :
            Dominates(a, b) =>
                \A j \in 1..Len(hybrid_results) :
                    hybrid_results[j].chunk_id = semantic_results[b].chunk_id =>
                        \E i \in 1..(j - 1) :
                            hybrid_results[i].chunk_id = semantic_results[a].chunk_id

\* C17 amended: with positive weights, a candidate that dominates another one
\* never gets a lower combined_score; it is ranked above the other one when
\* its combined_score is strictly higher or when the index returned it first.
\* Floating-point rounding can make the two combined scores equal, and then
\* the order of the index decides. In the scenario of the specification
\* (semantic score 0.9 with a keyword match against 0.1 without one, weights
\* 0.7 and 0.3) the combined_score is strictly higher.
DominatingCandidateRanksAboveUnlessTied ==
    (searches > 0 /\ FLt(FZero, semantic_weight) /\ FLt(FZero, keyword_weight)) =>
        LET weights == NormalizeWeights(semantic_weight, keyword_weight)
            combined(c) == CombinedScore(weights[1], weights[2], semantic_results[c].score,
                                         KeywordScores[query, semantic_results[c].text])
        IN  \A a, b \in 1..Len(semantic_results) :
                Dominates(a, b) =>
                    /\ FLe(combined(b), combined(a))
                    /\ (FLt(combined(b), combined(a)) \/ a < b) =>
                           \A j \in 1..Len(hybrid_results) :
                               hybrid_results[j].chunk_id = semantic_results[b].chunk_id =>
                                   \E i \in 1..(j - 1) :
                                       hybrid_results[i].chunk_id = semantic_results[a].chunk_id
                    /\ (/\ semantic_weight = F07 /\ keyword_weight = F03
                        /\ semantic_results[a].score = DistanceToScore(F02)
                        /\ semantic_results[b].score = DistanceToScore(FRound(18, 10))
                        /\ FLt(FZero, KeywordScores[query, semantic_results[a].text])
                        /\ KeywordScores[query, semantic_results[b].text] = FZero) =>
                           FLt(combined(b), combined(a))

\* C17 witness: with positive weights the index returned a candidate b before
\* a candidate a that dominates it, and hybrid_search returned a before b.
DominatingCandidateRanksAboveWitness ==
    /\ searches > 0 /\ FLt(FZero, semantic_weight) /\ FLt(FZero, keyword_weight)
    /\ \E a, b \in 1..Len(semantic_results) :
          /\ Dominates(a, b) /\ b < a
          /\ \E i, j \in 1..Len(hybrid_results) :
                /\ i < j
                /\ hybrid_results[i].chunk_id = semantic_results[a].chunk_id
                /\ hybrid_results[j].chunk_id = semantic_results[b].chunk_id

-----------------------------------------------------------------------------
(* Claims on the deduplicator *)

\* the paper_ids of the members of a group
Members(group) == {group.papers[k].paper_id : k \in 1..Len(group.papers)}
\* the member sets of a list of duplicate groups
MemberSets(groups) == {Members(groups[g]) : g \in 1..Len(groups)}

\* C2: after find_duplicate_papers, any two documents of the corpus with
\* identical non-empty DOIs are members of one duplicate group, whatever the
\* corpus order and whatever the other documents are.
SameDoiSameGroup ==
    dedup_last = "find_duplicate_papers" =>
        \A i, j \in 1..Len(all_data) :
            (i # j /\ all_data[i].doi # "" /\ all_data[i].doi = all_data[j].doi) =>
                \E members \in MemberSets(duplicates) :
                    all_data[i].paper_id \in members /\ all_data[j].paper_id \in members

\* C6: find_duplicate_papers run on two orderings of the same corpus returns
\* the same collection of member sets.
GroupsOrderIndependent ==
    (dedup_last = "find_duplicate_papers" /\ dedup_calls = 2) =>
        MemberSets(duplicates) = MemberSets(prev_duplicates)

\* C12: in the groups find_duplicate_papers returns every document appears at
\* most once: in at most one group, and once in it
GroupsDisjoint ==
    \A g, h \in 1..Len(duplicates) :
        \A k \in 1..Len(duplicates[g].papers), l \in 1..Len(duplicates[h].papers) :
            duplicates[g].papers[k].paper_id = duplicates[h].papers[l].paper_id =>
                g = h /\ k = l

\* a group was returned and a document outside it matches one of its members
GroupsDisjointWitness ==
    /\ dedup_last = "find_duplicate_papers" /\ Len(duplicates) = 1
    /\ \E i, j \in 1..Len(all_data) :
          /\ all_data[i].paper_id \in Members(duplicates[1])
          /\ all_data[j].paper_id \notin Members(duplicates[1])
          /\ MatchReason(all_data[i], all_data[j], threshold) # ""

\* C18: a document whose DOI is empty is never matched on the DOI criterion and
\* a document whose arXiv ID is empty is never matched on the arXiv criterion,
\* and find_duplicate_papers returns for them: every member of a returned
\* group shares with the group's first paper a non-empty DOI, or a non-empty
\* arXiv base ID, or is similar to it in title and authors
MissingIdentifierNeverMatches ==
    /\ \A i, j \in 1..Len(all_data) :
          LET reason == MatchReason(all_data[i], all_data[j], threshold)
          IN  /\ reason = "doi" => all_data[i].doi # "" /\ all_data[j].doi # ""
              /\ reason = "arxiv" => all_data[i].arxiv_id # <<>> /\ all_data[j].arxiv_id # <<>>
    /\ \A g \in 1..Len(duplicates) : \A k \in 2..Len(duplicates[g].papers) :
          LET paper1 == duplicates[g].papers[1]
              paper2 == duplicates[g].papers[k]
          IN  \/ paper1.doi # "" /\ paper1.doi = paper2.doi
              \/ /\ paper1.arxiv_id # <<>> /\ paper2.arxiv_id # <<>>
                 /\ BaseId(paper1.arxiv_id) = BaseId(paper2.arxiv_id)
              \/ /\ FLe(threshold, SimilarityScores[paper1.title, paper2.title])
                 /\ FLe(AuthorThreshold, SimilarityScores[paper1.authors, paper2.authors])

\* find_duplicate_papers returned no group for a collection of papers that
\* all lack both identifiers
MissingIdentifierNeverMatchesWitness ==
    /\ dedup_last = "find_duplicate_papers" /\ Len(all_data) >= 2
    /\ \A i \in 1..Len(all_data) : all_data[i].doi = "" /\ all_data[i].arxiv_id = <<>>
    /\ duplicates = <<>>

\* the position of a paper in the corpus
CorpusPosition(paper) == CHOOSE i \in 1..Len(all_data) : all_data[i].paper_id = paper.paper_id

\* paper1 and paper2 match on one of the three criteria, at the threshold of
\* the call
MatchOnSomeCriterion(paper1, paper2) ==
    \/ paper1.doi # "" /\ paper1.doi = paper2.doi
    \/ /\ paper1.arxiv_id # <<>> /\ paper2.arxiv_id # <<>>
       /\ BaseId(paper1.arxiv_id) = BaseId(paper2.arxiv_id)
    \/ /\ FLe(threshold, SimilarityScores[paper1.title, paper2.title])
       /\ FLe(<<7, 10>>, SimilarityScores[paper1.authors, paper2.authors])

\* C21: every group find_duplicate_papers returns has at least two members,
\* its first member is the earliest of them in corpus order, every other
\* member matches the first one on a criterion, and a document that matches no
\* other document of the corpus is in no group.
GroupsAreMatchesOfTheirFirstMember ==
    dedup_last = "find_duplicate_papers" =>
        /\ \A g \in 1..Len(duplicates) :
              LET papers == duplicates[g].papers
              IN  /\ Len(papers) >= 2
                  /\ \A k \in 2..Len(papers) :
                        /\ CorpusPosition(papers[1]) < CorpusPosition(papers[k])
                        /\ MatchOnSomeCriterion(papers[1], papers[k])
        /\ \A i \in 1..Len(all_data) :
              (\A j \in 1..Len(all_data) :
                   j # i => ~MatchOnSomeCriterion(all_data[i], all_data[j])) =>
                  \A g \in 1..Len(duplicates) : all_data[i].paper_id \notin Members(duplicates[g])

\* C21 witness: a group was returned with a member that joined on title and
\* author similarity alone, while a document with a matching title and other
\* authors stayed outside every group.
GroupsAreMatchesWitness ==
    /\ dedup_last = "find_duplicate_papers" /\ Len(duplicates) = 1
    /\ \E k \in 2..Len(duplicates[1].papers) :
          LET paper1 == duplicates[1].papers[1]
              paper2 == duplicates[1].papers[k]
          IN  /\ ~SameDoi(paper1, paper2)
              /\ paper1.arxiv_id = <<>>
    /\ \E i, j \in 1..Len(all_data) :
          /\ all_data[i].paper_id \notin Members(duplicates[1])
          /\ all_data[j].paper_id \in Members(duplicates[1])
          /\ FLe(threshold, SimilarityScores[all_data[i].title, all_data[j].title])
          /\ \A l \in 1..Len(all_data) :
                l # i => ~MatchOnSomeCriterion(all_data[i], all_data[l])

\* C29: two documents that both have no DOI, no arXiv ID, an empty title and
\* an empty author string are not members of one duplicate group.
MissingDataNeverGrouped ==
    dedup_last = "find_duplicate_papers" =>
        \A i, j \in 1..Len(all_data) :
            (/\ i # j
             /\ \A k \in {i, j} :
                   /\ all_data[k].doi = "" /\ all_data[k].arxiv_id = <<>>
                   /\ all_data[k].title = <<>> /\ all_data[k].authors = <<>>) =>
                ~\E members \in MemberSets(duplicates) :
                     all_data[i].paper_id \in members /\ all_data[j].paper_id \in members

\* an arXiv identifier without its trailing version suffix "v" digits
StripVersion(arxiv_id) ==
    LET suffixes == {i \in 1..(Len(arxiv_id) - 1) :
                        /\ arxiv_id[i] = "v"
                        /\ \A k \in (i + 1)..Len(arxiv_id) : arxiv_id[k] \in Digits}
    IN  IF suffixes = {} THEN arxiv_id
        ELSE SubSeq(arxiv_id, 1, (CHOOSE i \in suffixes : \A o \in suffixes : i <= o) - 1)

\* C22: two documents that both have an arXiv identifier (and match on
\* nothing else) are put in one group by find_duplicate_papers, and listed
\* under one base ID by normalize_arxiv_versions, exactly when their
\* identifiers are equal after removing the trailing version suffix.
ArxivMatchIsVersionStrippedEquality ==
    \A i, j \in 1..Len(all_data) :
        (i # j /\ all_data[i].arxiv_id # <<>> /\ all_data[j].arxiv_id # <<>>
             /\ all_data[i].doi = "" /\ all_data[j].doi = ""
             /\ ~FLe(threshold, SimilarityScores[all_data[i].title, all_data[j].title])) =>
            LET same_paper == StripVersion(all_data[i].arxiv_id) = StripVersion(all_data[j].arxiv_id)
                both_in(ids) == all_data[i].paper_id \in ids /\ all_data[j].paper_id \in ids
            IN  /\ (dedup_last = "find_duplicate_papers" /\ Len(all_data) = 2) =>
                      (same_paper <=> \E members \in MemberSets(duplicates) : both_in(members))
                /\ arxiv_versions[1] = "ok" =>
                      (same_paper <=>
                          \E g \in 1..Len(arxiv_versions[2]) :
                              both_in({arxiv_versions[2][g].versions[k].paper_id :
                                          k \in 1..Len(arxiv_versions[2][g].versions)}))

-----------------------------------------------------------------------------
(* Claims on the metadata merge *)

\* C19: merge_paper_metadata never raises, and it returns the same result
\* for every ordering of the same member ids.
MergeIndependentOfMemberOrder ==
    /\ merges > 0 => merged[1] = "ok"
    /\ merges = 2 => merged = prev_merged

-----------------------------------------------------------------------------
(* Claims on the chunker *)

\* 0 < overlap < max_size, for the sizes chunk_text works with
ValidSizes == 0 < chunk_overlap /\ chunk_overlap < chunk_size

\* C3: with 0 < overlap < max_size every iteration of chunk_text's loop that
\* is followed by another one begins it at a later start position (so the
\* loop ends and chunk_text returns).
ChunkStartMovesForward ==
    [][(pc = "loop" /\ pc' = "loop" /\ ValidSizes) => start_index' > start_index]_vars

\* C4: the chunks an entry point returns carry the indices 0, 1, ..., n-1 in
\* order: chunk_text's on return, chunk_by_paragraphs's whenever it returns.
DenseChunkIndices ==
    /\ pc = "done" => \A i \in 1..Len(chunks) : chunks[i].index = i - 1
    /\ para_chunks[1] = "ok" =>
          \A i \in 1..Len(para_chunks[2]) : para_chunks[2][i].index = i - 1

\* C7: with 0 < overlap < max_size the chunks of chunk_text cover the
\* whitespace-normalised text without gaps: the first starts at offset 0, each
\* following one starts at or before the end offset of the one before it and
\* each chunk's text is the stripped slice between its offsets (at every
\* point of the loop), and on return the last chunk ends at the text length;
\* a text that is not empty after stripping yields chunks.
ChunkCoverage ==
    (pc # "call" /\ ValidSizes /\ Strip(text) # <<>>) =>
        /\ chunks # <<>> => chunks[1].start_char = 0
        /\ \A i \in 2..Len(chunks) : chunks[i].start_char <= chunks[i - 1].end_char
        /\ \A i \in 1..Len(chunks) :
              /\ chunks[i].start_char < chunks[i].end_char
              /\ chunks[i].text =
                    Strip(SubSeq(cleaned_text, chunks[i].start_char + 1, chunks[i].end_char))
        /\ pc = "done" =>
              /\ chunks # <<>>
              /\ chunks[Len(chunks)].end_char = Len(cleaned_text)

\* C7 witness: chunk_text returned three or more chunks, one of them cut at a
\* sentence boundary before max_size, the second overlapping the first.
ChunkCoverageWitness ==
    /\ pc = "done" /\ ValidSizes
    /\ Len(chunks) >= 3
    /\ chunks[2].start_char < chunks[1].end_char
    /\ \E i \in 1..(Len(chunks) - 1) :
          chunks[i].end_char - chunks[i].start_char < chunk_size

\* C20 as stated, at the model's scale (an input of 250 characters is 2.5
\* times max_size): chunk_text returns at least 2 chunks for every input of at
\* least 2.5 times max_size characters that is not whitespace-only, and the
\* empty list for an empty or whitespace-only input.
LongInputYieldsTwoChunks ==
    pc = "done" =>
        /\ Strip(text) = <<>> => chunks = <<>>
        /\ (ValidSizes /\ Strip(text) # <<>> /\ 2 * Len(text) >= 5 * chunk_size) =>
              Len(chunks) >= 2

\* C20 amended: what counts is the length of the whitespace-normalised text.
\* chunk_text returns at least 2 chunks when the normalised text is longer
\* than max_size, exactly 1 chunk when it has between 1 and max_size
\* characters, however long the input is, and the empty list for an empty or
\* whitespace-only input.
NormalisedLengthDecidesChunkCount ==
    pc = "done" =>
        /\ Strip(text) = <<>> => chunks = <<>>
        /\ (ValidSizes /\ Strip(text) # <<>>) =>
              /\ cleaned_text = CleanText(text)
              /\ Len(cleaned_text) > chunk_size => Len(chunks) >= 2
              /\ Len(cleaned_text) <= chunk_size => Len(chunks) = 1

\* C20 witness: chunk_text returned 2 or more chunks for an input of at
\* least 2.5 times max_size characters whose whitespace runs were collapsed.
NormalisedLengthWitness ==
    /\ pc = "done" /\ ValidSizes
    /\ 2 * Len(text) >= 5 * chunk_size
    /\ Len(cleaned_text) < Len(text) /\ Len(cleaned_text) > chunk_size
    /\ Len(chunks) >= 2

\* C26: every chunk chunk_text emits has a non-empty text of at most max_size
\* characters, and every chunk but the last spans more than half of max_size
\* characters: it is cut at exactly max_size, or at a sentence boundary that
\* lies past half of max_size.
ChunksPastHalfOfMaxSize ==
    (run = "chunk" /\ pc # "call" /\ ValidSizes) =>
        \A i \in 1..Len(chunks) :
            LET span == chunks[i].end_char - chunks[i].start_char
            IN  /\ chunks[i].text # <<>>
                /\ Len(chunks[i].text) <= chunk_size
                /\ i < Len(chunks) =>
                      /\ 2 * span > chunk_size
                      /\ \/ span = chunk_size
                         \/ /\ cleaned_text[chunks[i].end_char] \in {".", "!", "?"}
                            /\ cleaned_text[chunks[i].end_char + 1] = " "
                            /\ 2 * (span - 1) > chunk_size

\* C26 witness: chunk_text returned chunks of which one, not the last, was cut
\* at a sentence boundary before max_size and another one at max_size.
ChunksPastHalfWitness ==
    /\ run = "chunk" /\ pc = "done" /\ ValidSizes
    /\ \E i, j \in 1..(Len(chunks) - 1) :
          /\ chunks[i].end_char - chunks[i].start_char < chunk_size
          /\ chunks[j].end_char - chunks[j].start_char = chunk_size

\* C23: no chunk chunk_by_paragraphs returns has a text longer than
\* max_chunk_size (settings.chunk_size when the argument is None).
ParagraphChunksWithinMaxSize ==
    para_chunks[1] = "ok" =>
        \A i \in 1..Len(para_chunks[2]) :
            Len(para_chunks[2][i].text) <= OrDefault(max_chunk_size, settings.chunk_size)

-----------------------------------------------------------------------------
(* Claims on the query expander *)

\* C11: normalize_query is idempotent: normalising a normalised query gives it
\* back, so every result of a chain of normalize_query calls equals the first
NormalizeQueryIdempotent ==
    \A i \in 2..Len(normalized) : normalized[i] = normalized[1]

\* a chain of two calls whose first one expanded an acronym
NormalizeQueryIdempotentWitness ==
    /\ Len(normalized) >= 2
    /\ \E w \in Range(Split(Lower(user_query))) : w \in DOMAIN acronym_map
    /\ normalized[1] # user_query

\* C27: normalize_query returns the whitespace-separated tokens of the query
\* joined by single spaces, each token that equals an acronym key
\* (case-insensitively) replaced by its expansion and every other token
\* unchanged, character for character.
UnmatchedTokensUnchanged ==
    Len(normalized) >= 1 =>
        LET tokens == Split(user_query)
        IN  normalized[1] =
                Join([i \in 1..Len(tokens) |->
                         IF Lower(tokens[i]) \in DOMAIN acronym_map
                         THEN acronym_map[Lower(tokens[i])] ELSE tokens[i]],
                     <<" ">>)

\* C15: whatever the chat completion call does (it raises, returns no choice,
\* no content, a content that is not a string, or any text), a call
\* expand_query_with_llm(query) returns, without raising, a list of 1 to 5
\* strings whose first element is query; when the call raises, the list is
\* expand_query(query)
ExpandWithLlmNeverFails ==
    expanded_queries # <<"none">> =>
        /\ expanded_queries[1] = "ok"
        /\ Len(expanded_queries[2]) \in 1..5
        /\ expanded_queries[2][1] = expand_argument
        /\ (llm_enabled /\ llm_response = <<"raise">>) =>
               expanded_queries[2] = expand_query(expand_argument)

\* the completion returned more lines than are kept and five queries came back
ExpandWithLlmNeverFailsWitness ==
    /\ llm_enabled /\ llm_response[1] = "text"
    /\ Len(SplitLines(llm_response[2], <<>>)) > 4
    /\ expanded_queries[1] = "ok" /\ Len(expanded_queries[2]) = 5

-----------------------------------------------------------------------------
(* Claims on the pipeline *)

\* C13: when the vector index returns no candidates hybrid_search returns an
\* empty list; rerank_results and ensure_diversity return an empty list for
\* an empty list; none of them raises; run_rag_pipeline then raises "No
\* relevant context found", and it never reaches generate_answer with an
\* empty context
EmptyCandidatesDegradeGracefully ==
    /\ (run = "hybrid" /\ searches > 0 /\ semantic_results = <<>>) => hybrid_results = <<>>
    /\ (run = "rerank" /\ last_op # "none" /\ prev_results = <<>>) =>
           results = <<>> /\ raised = ""
    /\ (run = "pipeline" /\ pipeline_outcome # <<"none">>) =>
           /\ collection_hits = <<>> =>
                  pipeline_outcome = <<"raise", "No relevant context found for the query">>
           /\ pipeline_outcome[1] = "generate_answer" => pipeline_outcome[2] # <<>>

\* run_rag_pipeline was called on an empty index
EmptyCandidatesWitness ==
    /\ run = "pipeline" /\ collection_hits = <<>>
    /\ pipeline_outcome = <<"raise", "No relevant context found for the query">>

\* C30: with use_reranking enabled, two context chunks with equal hybrid
\* score (equal text and distance in the index), each the only chunk of its
\* document, come in the order of the quality scores of their documents'
\* stored metadata
ContextOrderedByDocumentQuality ==
    (run = "pipeline" /\ use_reranking /\ pipeline_outcome[1] = "generate_answer") =>
        LET context_chunks == pipeline_outcome[2]
            ChunksOf(paper_id) ==
                {h \in 1..Len(collection_hits) : collection_hits[h].paper_id = paper_id}
        IN  \A i, j \in 1..Len(context_chunks) :
                LET first == context_chunks[i]
                    second == context_chunks[j]
                IN  (/\ i < j
                     /\ ChunksOf(first.paper_id) = {first.chunk_id}
                     /\ ChunksOf(second.paper_id) = {second.chunk_id}
                     /\ collection_hits[first.chunk_id].text
                            = collection_hits[second.chunk_id].text
                     /\ collection_hits[first.chunk_id].distance
                            = collection_hits[second.chunk_id].distance) =>
                        FLe(calculate_quality_score(index_metadata[second.paper_id])[2],
                            calculate_quality_score(index_metadata[first.paper_id])[2])

====
